---- MODULE Spec2Model ----
(***************************************************************************)
(* A model of the Vibe patch engine (src/vibe_cli.py): the text edits of   *)
(* apply_patch, the validator, and the create / backup / write lifecycle   *)
(* of apply_patch and apply_patches on a small filesystem; further        *)
(* load_patches, the preview flows (cmd_preview, /apply of src/server.py), *)
(* /revert of the server, and two calls of apply_patches at once.          *)
(*                                                                         *)
(* A text is a sequence of lines, every line ended by one newline; the     *)
(* empty sequence is the empty string.  A line is one of a small alphabet  *)
(* of Python source lines:                                                 *)
(*   "blank"    (empty line)          "stmt"     x = 1                     *)
(*   "body"         pass              "bad"      x = )                     *)
(*   "def_foo"  def foo():            "adef_foo" async def foo():          *)
(*   "class_C"  class C:              "deco"     @dec                      *)
(*   "begin"    # BEGIN               "end"      # END                     *)
(*   "both"     # BEGIN END           "istmt"        x = 1                 *)
(*   "def_bar"  def bar(self):        "mdef_bar"     def bar(self):        *)
(*   "mdeco"        @dec              "mbody"            pass              *)
(* A regular expression is modelled by the set of lines it matches.        *)
(***************************************************************************)
EXTENDS Integers, Sequences, FiniteSets, TLC

VARIABLES
  files,     \* path -> [exists, text]: the regular files under the repo root
  dirs,      \* the directories that exist besides the root
  backups,   \* the files in the VibeBackups directories: [file, ts, text]
  now,       \* the clock, in seconds
  batch,     \* the patches given to apply_patches: <<[meta, code], ...>>
  dry,       \* the dry flag given to apply_patches
  idx,       \* the record apply_patches is at
  pc,        \* where apply_patches / apply_patch is within that record
  existed,   \* file_existed_originally of apply_patch
  cur_src,   \* src of apply_patch
  new_src,   \* new_src of apply_patch
  ret,       \* what the last apply_patch returned: [kind, text]
  err,       \* the exception that left apply_patches, or "none"
  snap,      \* history: files, dirs and backups when the record began
  outs,      \* history: new_src of every record that completed
  doc,       \* the lines of the patch document given to the vibe command
  revert,    \* the /revert request of the server: [pc, file, sha, content, status]
  real,      \* preview: the files under the real root (files is the scratch copy)
  scratch,   \* preview: the scratch directory exists
  flow,      \* preview: [kind, pc], the preview flow and where it is
  other,     \* concurrent calls: the locals of the call that is not running
  me         \* concurrent calls: the call that is running, 1 or 2

serverVars == <<revert>>

previewVars == <<real, scratch, flow>>

callVars == <<other, me>>

\* what apply_patches and apply_patch never touch
env == <<doc, serverVars, previewVars, callVars>>

vars == <<files, dirs, backups, now, batch, dry, idx, pc, existed, cur_src,
          new_src, ret, err, snap, outs, doc, revert, real, scratch, flow,
          other, me>>

\* ------------------------------------------------------------------------
\*  Lines
\* ------------------------------------------------------------------------

IndentStep == 4

MaxLen == 2

MaxClock == 1

Indent(l) ==
  CASE l \in {"body", "istmt", "mdef_bar", "mdeco"} -> IndentStep
    [] l = "mbody" -> IndentStep + IndentStep
    [] OTHER -> 0

IsBlank(l) == l = "blank"

IsComment(l) == l \in {"begin", "end", "both"}

IsDecorator(l) == l \in {"deco", "mdeco"}

IsFuncHeader(l) == l \in {"def_foo", "def_bar", "mdef_bar"}

IsAsyncHeader(l) == l = "adef_foo"

IsClassHeader(l) == l = "class_C"

IsHeader(l) == IsFuncHeader(l) \/ IsAsyncHeader(l) \/ IsClassHeader(l)

HeaderName(l) ==
  CASE l \in {"def_foo", "adef_foo"} -> "foo"
    [] l \in {"def_bar", "mdef_bar"} -> "bar"
    [] l = "class_C" -> "C"
    [] OTHER -> "none"

\* ------------------------------------------------------------------------
\*  Text helpers (str.rstrip, str.lstrip, slicing, joining)
\* ------------------------------------------------------------------------

RECURSIVE RStripBlank(_)
RStripBlank(t) ==
  IF t = <<>> THEN <<>>
  ELSE IF IsBlank(t[Len(t)]) THEN RStripBlank(SubSeq(t, 1, Len(t) - 1))
  ELSE t

RECURSIVE LStripBlank(_)
LStripBlank(t) ==
  IF t = <<>> THEN <<>>
  ELSE IF IsBlank(Head(t)) THEN LStripBlank(Tail(t))
  ELSE t

AllBlank(t) == \A i \in 1..Len(t) : IsBlank(t[i])

\* lines[a:b] of Python, with 0-based a (inclusive) and b (exclusive)
Slice(t, a, b) == SubSeq(t, a + 1, b)

From(t, a) == SubSeq(t, a + 1, Len(t))

\* ------------------------------------------------------------------------
\*  ast.parse on the line alphabet: [ok, body] with the top-level nodes of
\*  the module, ok = FALSE for a SyntaxError.  A node records its kind,
\*  name, lineno, end_lineno and the line of its first decorator (lineno
\*  when it has none), all 1-based.
\* ------------------------------------------------------------------------

SyntaxError == [ok |-> FALSE, body |-> <<>>]

NodeKind(l) ==
  CASE IsFuncHeader(l) -> "FunctionDef"
    [] IsAsyncHeader(l) -> "AsyncFunctionDef"
    [] IsClassHeader(l) -> "ClassDef"
    [] OTHER -> "Stmt"

\* index of the first line after i that is neither blank nor a comment, or 0
RECURSIVE NextCode(_, _)
NextCode(t, i) ==
  IF i >= Len(t) THEN 0
  ELSE IF IsBlank(t[i + 1]) \/ IsComment(t[i + 1]) THEN NextCode(t, i + 1)
  ELSE i + 1

\* The statements of the suite indented by s that starts at line i: [ok,
\* body, next, last], next the line that dedents out of the suite (Len + 1
\* at end of file) and last the last code line of the suite.
RECURSIVE ParseSuite(_, _, _, _, _, _)
ParseSuite(t, i, s, deco, acc, last) ==
  LET fail == [ok |-> FALSE, body |-> <<>>, next |-> 0, last |-> 0] IN
  IF i > Len(t) \/ (~IsBlank(t[i]) /\ ~IsComment(t[i]) /\ Indent(t[i]) < s)
  THEN (IF deco # 0 THEN fail
        ELSE [ok |-> TRUE, body |-> acc, next |-> i, last |-> last])
  ELSE LET l == t[i] IN
    IF IsBlank(l) \/ IsComment(l) THEN ParseSuite(t, i + 1, s, deco, acc, last)
    ELSE IF l = "bad" \/ Indent(l) > s THEN fail
    ELSE IF IsDecorator(l)
    THEN ParseSuite(t, i + 1, s, IF deco = 0 THEN i ELSE deco, acc, i)
    ELSE IF IsHeader(l) THEN
      LET j == NextCode(t, i) IN
        IF j = 0 \/ Indent(t[j]) <= s \/ t[j] = "bad" THEN fail
        ELSE LET sub == ParseSuite(t, j, Indent(t[j]), 0, <<>>, j) IN
          IF ~sub.ok THEN fail
          ELSE ParseSuite(t, sub.next, s, 0,
                 Append(acc, [kind |-> NodeKind(l), name |-> HeaderName(l),
                              lineno |-> i, end_lineno |-> sub.last,
                              deco |-> IF deco = 0 THEN i ELSE deco,
                              body |-> sub.body]),
                 sub.last)
    ELSE IF deco # 0 THEN fail
    ELSE ParseSuite(t, i + 1, s, 0,
           Append(acc, [kind |-> "Stmt", name |-> "none", lineno |-> i,
                        end_lineno |-> i, deco |-> i, body |-> <<>>]),
           i)

Parse(t) ==
  LET r == ParseSuite(t, 1, 0, 0, <<>>, 0)
  IN IF r.ok THEN [ok |-> TRUE, body |-> r.body] ELSE SyntaxError

\* ------------------------------------------------------------------------
\*  Results of an edit: the new text, or the exception raised
\* ------------------------------------------------------------------------

Ok(t) == [err |-> "none", text |-> t]

Raise(e) == [err |-> e, text |-> <<>>]

Max(S) == CHOOSE x \in S : \A y \in S : y <= x

Min(S) == CHOOSE x \in S : \A y \in S : x <= y

\* the lines of t whose 1-based index is not in drop, in order
RECURSIVE Keep(_, _, _)
Keep(t, drop, i) ==
  IF i > Len(t) THEN <<>>
  ELSE (IF i \in drop THEN <<>> ELSE <<t[i]>>) \o Keep(t, drop, i + 1)

\* '\n'.join(lines).rstrip() + '\n'
JoinRStripNL(lines) ==
  LET s == RStripBlank(lines) IN IF s = <<>> THEN <<"blank">> ELSE s

\* ------------------------------------------------------------------------
\*  add_function
\* ------------------------------------------------------------------------

\* walk a 0-based start index up over the decorator lines directly above it
RECURSIVE DecoWalk(_, _)
DecoWalk(lines, start) ==
  IF start > 0 /\ IsDecorator(lines[start]) THEN DecoWalk(lines, start - 1)
  ELSE start

RECURSIVE PopLeadingBlanks(_)
PopLeadingBlanks(lines) ==
  IF Len(lines) > 1 /\ IsBlank(lines[1]) /\ IsBlank(lines[2])
  THEN PopLeadingBlanks(Tail(lines))
  ELSE lines

\* src.rstrip('\n').split('\n')
SplitRStrip(src) ==
  LET s == RStripBlank(src) IN IF s = <<>> THEN <<"blank">> ELSE s

\* fn_code.strip('\n').split('\n')
SplitStrip(code) ==
  LET s == LStripBlank(RStripBlank(code)) IN IF s = <<>> THEN <<"blank">> ELSE s

\* lines 72-92: src_lines without the top-level FunctionDefs named fn_name
\* (each with the decorator lines directly above it)
RemoveNamed(src_lines, module, fn_name) ==
  LET hits == {k \in 1..Len(module.body) :
                 /\ module.body[k].kind = "FunctionDef"
                 /\ module.body[k].name = fn_name}
  IN Keep(src_lines,
          UNION {(DecoWalk(src_lines, module.body[k].lineno - 1) + 1)
                   .. module.body[k].end_lineno : k \in hits},
          1)

\* lines 95-114: after the last function, else before the first class, else
\* at the end
InsertionPoint(module, n) ==
  LET funcs == {k \in 1..Len(module.body) : module.body[k].kind = "FunctionDef"}
      classes == {k \in 1..Len(module.body) : module.body[k].kind = "ClassDef"}
  IN IF funcs # {} THEN Max({module.body[k].end_lineno : k \in funcs})
     ELSE IF classes # {} THEN Min({module.body[k].lineno : k \in classes}) - 1
     ELSE n

\* lines 115-121
InsertLines(src_lines, fn_lines, insert_at) ==
  JoinRStripNL(PopLeadingBlanks(
    Slice(src_lines, 0, insert_at)
      \o (IF insert_at > 0 /\ ~IsBlank(src_lines[insert_at])
          THEN <<"blank">> \o fn_lines ELSE fn_lines)
      \o From(src_lines, insert_at)))

\* lines 94-121
InsertFunction(src_lines, fn_code) ==
  IF ~Parse(src_lines).ok THEN Raise("SyntaxError")
  ELSE Ok(InsertLines(src_lines, SplitStrip(fn_code) \o <<"blank">>,
                      InsertionPoint(Parse(src_lines), Len(src_lines))))

patch_add_function(src, fn_code, fn_name) ==
  IF fn_name = "none" THEN InsertFunction(SplitRStrip(src), fn_code)
  ELSE IF ~Parse(src).ok THEN Raise("SyntaxError")
  ELSE InsertFunction(RemoveNamed(SplitRStrip(src), Parse(src), fn_name), fn_code)

\* ------------------------------------------------------------------------
\*  Function extent and remove_function
\* ------------------------------------------------------------------------

NotFound == [found |-> FALSE, start |-> 0, end |-> 0]

\* the extent of the first function (def or async def) named function_name
\* among the nodes of body: first decorator line to end_lineno
FunctionExtentIn(body, function_name) ==
  LET hits == {k \in 1..Len(body) :
                 /\ body[k].kind \in {"FunctionDef", "AsyncFunctionDef"}
                 /\ body[k].name = function_name}
  IN IF hits = {} THEN NotFound
     ELSE [found |-> TRUE,
           start |-> Min({body[Min(hits)].lineno, body[Min(hits)].deco}),
           end |-> body[Min(hits)].end_lineno]

get_function_extent_ast(src, function_name) ==
  IF ~Parse(src).ok THEN NotFound
  ELSE FunctionExtentIn(Parse(src).body, function_name)

\* lines 680-699: prefix_str and suffix_str put together again
RejoinTopLevel(prefix_str, suffix_str) ==
  IF prefix_str = <<>> /\ suffix_str = <<>> THEN <<>>
  ELSE IF prefix_str = <<>> THEN suffix_str
  ELSE IF suffix_str = <<>> THEN prefix_str
  ELSE prefix_str \o <<"blank", "blank">> \o suffix_str

\* A faulty removal, to test the sensitivity of RemoveAbsentIsNoOp: a
\* function that is not found still costs the file its trailing blank lines.
RemoveFunctionExtentStripped(src, ext) ==
  IF ~ext.found THEN RStripBlank(src)
  ELSE RejoinTopLevel(RStripBlank(Slice(src, 0, ext.start - 1)),
                      LStripBlank(From(src, ext.end)))

RemoveFunctionExtent(src, ext) ==
  IF ~ext.found THEN src
  ELSE RejoinTopLevel(RStripBlank(Slice(src, 0, ext.start - 1)),
                      LStripBlank(From(src, ext.end)))

_remove_function(src, name) ==
  RemoveFunctionExtent(src, get_function_extent_ast(src, name))

\* ------------------------------------------------------------------------
\*  Block editor: remove_block, replace_block, add_block.  A pattern is the
\*  set of lines on which re.search succeeds.
\* ------------------------------------------------------------------------

\* A faulty scan, to test the sensitivity of FirstWindowOnly: it starts a
\* new removal at every line the start anchor matches.
RECURSIVE RemovalScanEveryWindow(_, _, _, _, _)
RemovalScanEveryWindow(lines, start_re, end_re, in_removal_block, start_anchor_found) ==
  IF lines = <<>> THEN <<>>
  ELSE IF ~in_removal_block /\ Head(lines) \in start_re
  THEN RemovalScanEveryWindow(Tail(lines), start_re, end_re, TRUE, TRUE)
  ELSE IF in_removal_block
  THEN RemovalScanEveryWindow(Tail(lines), start_re, end_re,
                              ~(Head(lines) \in end_re), start_anchor_found)
  ELSE <<Head(lines)>> \o
       RemovalScanEveryWindow(Tail(lines), start_re, end_re, FALSE, start_anchor_found)

RECURSIVE RemovalScan(_, _, _, _, _)
RemovalScan(lines, start_re, end_re, in_removal_block, start_anchor_found) ==
  IF lines = <<>> THEN <<>>
  ELSE LET line_content == Head(lines) IN
    IF ~start_anchor_found /\ line_content \in start_re
    THEN RemovalScan(Tail(lines), start_re, end_re, TRUE, TRUE)
    ELSE IF in_removal_block
    THEN RemovalScan(Tail(lines), start_re, end_re,
                     ~(line_content \in end_re), start_anchor_found)
    ELSE <<line_content>> \o
         RemovalScan(Tail(lines), start_re, end_re, FALSE, start_anchor_found)

_perform_anchor_block_removal(source_text, start_pattern, end_pattern) ==
  RemovalScan(source_text, start_pattern, end_pattern, FALSE, FALSE)

\* a line of the patch code with indent_prefix put before it
\* (one indentation step; the lines of the patch codes drawn here all have
\* an indented form in the alphabet)
Shift(l, indent) ==
  IF indent = 0 THEN l
  ELSE CASE l = "stmt" -> "istmt"
         [] l = "def_bar" -> "mdef_bar"
         [] l = "deco" -> "mdeco"
         [] l = "body" -> "mbody"
         [] OTHER -> l

_reindent_code_block(original_block_str, indent) ==
  [i \in 1..Len(original_block_str) |-> Shift(original_block_str[i], indent)]

\* index of the first line of t at or after i that pat matches, or 0
RECURSIVE FirstMatch(_, _, _)
FirstMatch(t, pat, i) ==
  IF i > Len(t) THEN 0
  ELSE IF t[i] \in pat THEN i
  ELSE FirstMatch(t, pat, i + 1)

\* A faulty fallback, to test the sensitivity of AnchorMissAppends: the new
\* code is put before the original text.
PrependAtStart(src, block) == block \o src

\* the end-of-file append shared by add_block (position end) and the
\* anchors-not-found branch of replace_block
AppendAtEnd(src, block) ==
  LET processed_src == RStripBlank(src)
  IN IF processed_src # <<>> /\ block # <<>>
     THEN processed_src \o <<"blank">> \o block
     ELSE IF block # <<>> THEN block
     ELSE processed_src

\* lines 990-1001, the window being lines start_idx_rb .. end_idx_rb
ReplaceWindow(src, start_idx_rb, end_idx_rb, block) ==
  IF start_idx_rb # 0 /\ end_idx_rb # 0
  THEN Slice(src, 0, start_idx_rb - 1)
         \o _reindent_code_block(block, Indent(src[start_idx_rb]))
         \o From(src, end_idx_rb)
  ELSE AppendAtEnd(src, block)

\* lines 983-988: the first line start_pat matches, or 0
StartOfWindow(src, start_pat) == FirstMatch(src, start_pat, 1)

\* lines 983-988: the first line at or after the start line that end_pat
\* matches, or 0
EndOfWindow(src, start_idx_rb, end_pat) ==
  IF start_idx_rb = 0 THEN 0 ELSE FirstMatch(src, end_pat, start_idx_rb)

replace_block(src, start_pat, end_pat, block) ==
  ReplaceWindow(src, StartOfWindow(src, start_pat),
                EndOfWindow(src, StartOfWindow(src, start_pat), end_pat), block)

\* first index j > i of a non-blank line with indent <= level, or Len + 1
RECURSIVE BlockEnd(_, _, _)
BlockEnd(t, j, level) ==
  IF j > Len(t) THEN j
  ELSE IF ~IsBlank(t[j]) /\ Indent(t[j]) <= level THEN j
  ELSE BlockEnd(t, j + 1, level)

\* re.match(r"^\s*(class|def)\s+", suffix)
StartsClassOrDef(suffix) ==
  LET s == LStripBlank(suffix)
  IN s # <<>> /\ (IsFuncHeader(s[1]) \/ IsClassHeader(s[1]))

\* lines 903-924: the block put in at insertion_point_idx, with a blank line
\* after it when a def or class follows
InsertBlockAt(src, insertion_point_idx, final_block) ==
  Slice(src, 0, insertion_point_idx)
    \o final_block
    \o (IF final_block # <<>> /\ StartsClassOrDef(From(src, insertion_point_idx))
        THEN <<"blank">> ELSE <<>>)
    \o From(src, insertion_point_idx)

\* lines 885-924, m the first line the anchor matches
AddBlockAtAnchor(src, pos, m, block) ==
  InsertBlockAt(src,
                IF pos = "after" THEN BlockEnd(src, m + 1, Indent(src[m])) - 1
                ELSE m - 1,
                _reindent_code_block(block, Indent(src[m])))

add_block(src, pos, anchor, block) ==
  IF pos = "start"
  THEN (IF block = <<>> THEN src
        ELSE IF ~AllBlank(src) THEN block \o <<"blank">> \o src
        ELSE block \o src)
  ELSE IF pos \in {"before", "after"} /\ FirstMatch(src, anchor, 1) # 0
  THEN AddBlockAtAnchor(src, pos, FirstMatch(src, anchor, 1), block)
  ELSE AppendAtEnd(src, block)

\* ------------------------------------------------------------------------
\*  replace_function
\* ------------------------------------------------------------------------

\* re.search(r"^\s*class\s+", src, re.MULTILINE): \s* also runs over the
\* blank lines above the first class header, so the match starts at the
\* first line of the blank run directly above it.  0 when no class line.
RECURSIVE BlankRunStart(_, _)
BlankRunStart(t, i) ==
  IF i > 1 /\ IsBlank(t[i - 1]) THEN BlankRunStart(t, i - 1) ELSE i

ClassMatchLine(src) ==
  LET c == FirstMatch(src, {"class_C"}, 1)
  IN IF c = 0 THEN 0 ELSE BlankRunStart(src, c)

\* lines 401-440, class_line the 1-based line of the class match
InsertBeforeClass(stripped_prefix, normalized_block, suffix_str) ==
  IF stripped_prefix = <<>>
  THEN normalized_block \o <<"blank">> \o LStripBlank(suffix_str)
  ELSE stripped_prefix \o <<"blank">> \o normalized_block
         \o <<"blank">> \o LStripBlank(suffix_str)

\* called with a non-empty block only (apply_patch raises before, line 960)
_append_func_before_class(src, block) ==
  IF ClassMatchLine(src) # 0
  THEN InsertBeforeClass(RStripBlank(Slice(src, 0, ClassMatchLine(src) - 1)),
                         RStripBlank(block),
                         From(src, ClassMatchLine(src) - 1))
  ELSE IF RStripBlank(src) # <<>>
  THEN RStripBlank(src) \o <<"blank">> \o RStripBlank(block)
  ELSE RStripBlank(block)

\* lines[:start] + [block.rstrip('\n') + "\n"] + lines[end:]
_replace_block(lines, start, end, block) ==
  Slice(lines, 0, start)
    \o (IF RStripBlank(block) = <<>> THEN <<"blank">> ELSE RStripBlank(block))
    \o From(lines, end)

ReplaceFunctionExtent(src, ext, block) ==
  IF ~ext.found THEN _append_func_before_class(src, block)
  ELSE _replace_block(src, ext.start - 1, ext.end, block)

_replace_function(src, name, block) ==
  ReplaceFunctionExtent(src, get_function_extent_ast(src, name), block)

\* ------------------------------------------------------------------------
\*  Class replace and remove
\* ------------------------------------------------------------------------

\* the lines re.match(rf"^\s*class\s+{cls}\b", ln) accepts
ClassPattern(cls) == IF cls = "C" THEN {"class_C"} ELSE {}

\* the lines re.match(rf"^\s*class\s+{cls}\b.*:", ln) accepts
ClassDefPattern(cls) == IF cls = "C" THEN {"class_C"} ELSE {}

\* block.rstrip() + "\n\n", as lines
BlockAndBlank(block) ==
  IF RStripBlank(block) = <<>> THEN <<"blank", "blank">>
  ELSE RStripBlank(block) \o <<"blank">>

\* lines 549-556, start_idx the 0-based index of the class header
ReplaceClassAt(src, start_idx, block) ==
  Slice(src, 0, start_idx)
    \o BlockAndBlank(block)
    \o From(src, BlockEnd(src, start_idx + 2, Indent(src[start_idx + 1])) - 1)

\* line 548: src.rstrip("\n") + "\n\n" + block.rstrip() + "\n"
AppendClass(stripped, block) ==
  (IF stripped = <<>> THEN <<"blank", "blank">> ELSE stripped \o <<"blank">>)
    \o (IF RStripBlank(block) = <<>> THEN <<"blank">> ELSE RStripBlank(block))

_replace_class(src, cls, block) ==
  IF FirstMatch(src, ClassDefPattern(cls), 1) = 0
  THEN AppendClass(RStripBlank(src), block)
  ELSE ReplaceClassAt(src, FirstMatch(src, ClassDefPattern(cls), 1) - 1, block)

\* lines 774-782, start the 0-based index of the class header
RemoveClassAt(src, start) ==
  Slice(src, 0, start)
    \o From(src, BlockEnd(src, start + 2, Indent(src[start + 1])) - 1)

_remove_class(src, cls) ==
  IF FirstMatch(src, ClassPattern(cls), 1) = 0 THEN src
  ELSE RemoveClassAt(src, FirstMatch(src, ClassPattern(cls), 1) - 1)

\* ------------------------------------------------------------------------
\*  Method replace and remove
\* ------------------------------------------------------------------------

\* the lines meth_def accepts: indent_str, then def <meth> (
MethPattern(meth, indent) ==
  IF meth = "bar" /\ indent = IndentStep THEN {"mdef_bar"} ELSE {}

\* first index in i..last of a line in pat, or 0
FirstMatchIn(t, pat, i, last) ==
  LET m == FirstMatch(t, pat, i) IN IF m # 0 /\ m <= last THEN m ELSE 0

\* walk a 0-based start index up to cls_idx over lines that start with @
RECURSIVE MethodDecoWalk(_, _, _)
MethodDecoWalk(lines, start_idx, cls_idx) ==
  IF start_idx > cls_idx /\ IsDecorator(lines[start_idx])
  THEN MethodDecoWalk(lines, start_idx - 1, cls_idx)
  ELSE start_idx

\* first 0-based index m_end in from..end_idx-1 of a non-blank line indented
\* by at most level, or end_idx
RECURSIVE ScanTo(_, _, _, _)
ScanTo(lines, from, end_idx, level) ==
  IF from >= end_idx THEN from
  ELSE IF ~IsBlank(lines[from + 1]) /\ Indent(lines[from + 1]) <= level THEN from
  ELSE ScanTo(lines, from + 1, end_idx, level)

\* lines 604-621: the method at meth_idx replaced, from its decorators to
\* m_end (all indices 0-based)
ReplaceMethodFrom(src, start_idx, end_idx, indent, block) ==
  Slice(src, 0, start_idx) \o block \o <<"blank">>
    \o From(src, ScanTo(src, start_idx + 1, end_idx, indent))

\* lines 597-598
PrepareBlock(block, indent) ==
  IF block # <<>> /\ Indent(block[1]) >= indent THEN block
  ELSE _reindent_code_block(RStripBlank(block), indent)

\* lines 596-624
PlaceMethod(src, cls_idx, end_idx, meth_idx, indent, block) ==
  IF meth_idx # -1
  THEN ReplaceMethodFrom(src, MethodDecoWalk(src, meth_idx, cls_idx), end_idx,
                         indent, block)
  ELSE Slice(src, 0, end_idx)
         \o (IF ~IsBlank(src[end_idx]) THEN <<"blank">> ELSE <<>>)
         \o block \o <<"blank">> \o From(src, end_idx)

\* lines 586-624, the class body being lines cls_idx+1 .. end_idx-1
ReplaceInClassBody(src, cls_idx, end_idx, indent, meth, block) ==
  PlaceMethod(src, cls_idx, end_idx,
              FirstMatchIn(src, MethPattern(meth, indent), cls_idx + 2, end_idx) - 1,
              indent, PrepareBlock(block, indent))

\* lines 577-624, cls_idx the 0-based index of the class header
ReplaceInClass(src, cls_idx, meth, block) ==
  ReplaceInClassBody(src, cls_idx,
                     BlockEnd(src, cls_idx + 2, Indent(src[cls_idx + 1])) - 1,
                     Indent(src[cls_idx + 1]) + IndentStep, meth, block)

_replace_method(src, cls, meth, block) ==
  IF FirstMatch(src, ClassDefPattern(cls), 1) = 0 THEN Raise("ValueError")
  ELSE Ok(ReplaceInClass(src, FirstMatch(src, ClassDefPattern(cls), 1) - 1, meth, block))

\* the extent of the first method named method_name in a class body
MethodExtentIn(cbody, method_name) ==
  LET mhits == {k \in 1..Len(cbody) :
                  /\ cbody[k].kind \in {"FunctionDef", "AsyncFunctionDef"}
                  /\ cbody[k].name = method_name}
  IN IF mhits = {} THEN NotFound
     ELSE [found |-> TRUE,
           start |-> Min({cbody[Min(mhits)].lineno, cbody[Min(mhits)].deco}),
           end |-> cbody[Min(mhits)].end_lineno]

\* the first top-level ClassDef named class_name, as a set of indices
ClassHits(tree, class_name) ==
  IF ~tree.ok THEN {}
  ELSE {k \in 1..Len(tree.body) :
          /\ tree.body[k].kind = "ClassDef"
          /\ tree.body[k].name = class_name}

get_method_extent_ast(src, class_name, method_name) ==
  IF ClassHits(Parse(src), class_name) = {} THEN NotFound
  ELSE MethodExtentIn(Parse(src).body[Min(ClassHits(Parse(src), class_name))].body,
                      method_name)

\* lines 727-758: prefix_str and suffix_str put together again
RejoinInClass(prefix_str, suffix_str) ==
  IF prefix_str = <<>> /\ suffix_str = <<>> THEN <<>>
  ELSE IF prefix_str = <<>> THEN suffix_str
  ELSE IF suffix_str = <<>> THEN prefix_str
  ELSE prefix_str \o <<"blank">> \o suffix_str

RemoveMethodExtent(src, ext) ==
  IF ~ext.found THEN src
  ELSE RejoinInClass(RStripBlank(Slice(src, 0, ext.start - 1)),
                     LStripBlank(From(src, ext.end)))

_remove_method(src, cls_name, meth_name) ==
  RemoveMethodExtent(src, get_method_extent_ast(src, cls_name, meth_name))

\* ------------------------------------------------------------------------
\*  Metadata, validation, lint
\* ------------------------------------------------------------------------

\* A metadata key that is absent (or empty) has the value "none".
Meta(pt, file, cls, name, position, anchor, anchor_start, anchor_end) ==
  [VibeSpec |-> "1.6", patch_type |-> pt, file |-> file, class |-> cls,
   name |-> name, position |-> position, anchor |-> anchor,
   anchor_start |-> anchor_start, anchor_end |-> anchor_end]

supported_versions == {"1.0", "1.2", "1.3", "1.4", "1.5", "1.6"}

allowed_patch_types ==
  {"add_function", "add_method", "add_class", "add_block",
   "replace_function", "replace_method", "replace_class", "replace_block",
   "remove_function", "remove_method", "remove_class", "remove_block"}

\* "ok", or the exception validate_spec raises
\* A faulty validation, to test the sensitivity of ValidateAcceptsExactly:
\* the `name` key requirement is left out.
validate_spec_without_name(meta) ==
  LET pt == meta.patch_type
      pos == IF meta.position = "none" THEN "end" ELSE meta.position
  IN IF "none" \in {meta.VibeSpec, meta.patch_type, meta.file} THEN "ValueError"
     ELSE IF meta.VibeSpec \notin supported_versions THEN "ValueError"
     ELSE IF pt \notin allowed_patch_types THEN "ValueError"
     ELSE IF pt \in {"add_method", "replace_method", "remove_method"}
             /\ meta.class = "none" THEN "ValueError"
     ELSE IF pt = "add_block" /\ pos \notin {"start", "end", "before", "after"}
          THEN "ValueError"
     ELSE IF pt = "add_block" /\ pos \in {"before", "after"} /\ meta.anchor = "none"
          THEN "ValueError"
     ELSE IF pt \in {"remove_block", "replace_block"}
             /\ (meta.anchor_start = "none" \/ meta.anchor_end = "none")
          THEN "ValueError"
     ELSE "ok"

validate_spec(meta) ==
  LET pt == meta.patch_type
      pos == IF meta.position = "none" THEN "end" ELSE meta.position
  IN IF "none" \in {meta.VibeSpec, meta.patch_type, meta.file} THEN "ValueError"
     ELSE IF meta.VibeSpec \notin supported_versions THEN "ValueError"
     ELSE IF pt \notin allowed_patch_types THEN "ValueError"
     ELSE IF pt \in {"add_method", "replace_method", "remove_method"}
             /\ meta.class = "none" THEN "ValueError"
     ELSE IF pt \in {"replace_function", "replace_method", "replace_class",
                     "remove_function", "remove_method", "remove_class"}
             /\ meta.name = "none" THEN "ValueError"
     ELSE IF pt = "add_block" /\ pos \notin {"start", "end", "before", "after"}
          THEN "ValueError"
     ELSE IF pt = "add_block" /\ pos \in {"before", "after"} /\ meta.anchor = "none"
          THEN "ValueError"
     ELSE IF pt \in {"remove_block", "replace_block"}
             /\ (meta.anchor_start = "none" \/ meta.anchor_end = "none")
          THEN "ValueError"
     ELSE "ok"

\* the lines on which re.search of an anchor regex succeeds
Matches(pattern) ==
  CASE pattern = "BEGIN" -> {"begin", "both"}
    [] pattern = "END" -> {"end", "both"}
    [] pattern = "pass" -> {"body", "mbody"}
    [] OTHER -> {}

\* autopep8.fix_code, by its blank-line fixes: a run of more than two blank
\* lines is cut to two (E303) and blank lines at end of file go (W391)
RECURSIVE CollapseBlanks(_, _)
CollapseBlanks(t, run) ==
  IF t = <<>> THEN <<>>
  ELSE IF IsBlank(Head(t))
  THEN (IF run >= 2 THEN <<>> ELSE <<"blank">>) \o CollapseBlanks(Tail(t), run + 1)
  ELSE <<Head(t)>> \o CollapseBlanks(Tail(t), 0)

lint_code(src) == RStripBlank(CollapseBlanks(src, 0))

\* ------------------------------------------------------------------------
\*  apply_patch: the edit (the try block of apply_patch)
\* ------------------------------------------------------------------------

\* name of the first def (or async def) header in the block, or "none"
DefNameIn(block) ==
  LET hits == {i \in 1..Len(block) : IsFuncHeader(block[i]) \/ IsAsyncHeader(block[i])}
  IN IF hits = {} THEN "none" ELSE HeaderName(block[Min(hits)])

\* name of the first class header in the block, or "none"
ClassNameIn(block) ==
  LET hits == {i \in 1..Len(block) : IsClassHeader(block[i])}
  IN IF hits = {} THEN "none" ELSE HeaderName(block[Min(hits)])

Edit(meta, code, src) ==
  LET pt == meta.patch_type
      block == RStripBlank(code)
      pos == IF meta.position = "none" THEN "end" ELSE meta.position
  IN CASE pt = "add_function" -> patch_add_function(src, code, meta.name)
       [] pt = "add_method" ->
            IF meta.class = "none" THEN Raise("ValueError")
            ELSE IF DefNameIn(block) = "none" THEN Raise("ValueError")
            ELSE _replace_method(src, meta.class, DefNameIn(block), block)
       [] pt = "add_class" ->
            IF ClassNameIn(block) = "none" THEN Raise("ValueError")
            ELSE Ok(_replace_class(src, ClassNameIn(block), block))
       [] pt = "add_block" ->
            IF pos \in {"before", "after"} /\ meta.anchor = "none"
            THEN Raise("ValueError")
            ELSE Ok(add_block(src, pos, Matches(meta.anchor), block))
       [] pt = "remove_function" ->
            IF meta.name = "none" THEN Raise("ValueError")
            ELSE Ok(_remove_function(src, meta.name))
       [] pt = "remove_method" ->
            IF meta.class = "none" \/ meta.name = "none" THEN Raise("ValueError")
            ELSE Ok(_remove_method(src, meta.class, meta.name))
       [] pt = "remove_class" ->
            IF meta.name = "none" THEN Raise("ValueError")
            ELSE Ok(_remove_class(src, meta.name))
       [] pt = "remove_block" ->
            IF meta.anchor_start = "none" \/ meta.anchor_end = "none"
            THEN Raise("ValueError")
            ELSE Ok(_perform_anchor_block_removal(src, Matches(meta.anchor_start),
                                                  Matches(meta.anchor_end)))
       [] pt = "replace_function" ->
            IF meta.name = "none" \/ block = <<>> THEN Raise("ValueError")
            ELSE Ok(_replace_function(src, meta.name, block))
       [] pt = "replace_method" ->
            IF meta.class = "none" \/ meta.name = "none" \/ block = <<>>
            THEN Raise("ValueError")
            ELSE _replace_method(src, meta.class, meta.name, block)
       [] pt = "replace_class" ->
            IF meta.name = "none" \/ block = <<>> THEN Raise("ValueError")
            ELSE Ok(_replace_class(src, meta.name, block))
       [] pt = "replace_block" ->
            IF meta.anchor_start = "none" \/ meta.anchor_end = "none"
            THEN Raise("ValueError")
            ELSE Ok(replace_block(src, Matches(meta.anchor_start),
                                  Matches(meta.anchor_end), block))
       [] OTHER -> Ok(src)

\* ------------------------------------------------------------------------
\*  The filesystem
\* ------------------------------------------------------------------------

Paths == {"a.py", "sub/b.py"}

\* target.parent, "." being the repo root
Parent(f) == IF f = "sub/b.py" THEN "sub" ELSE "."

Absent == [exists |-> FALSE, text |-> <<>>]

File(t) == [exists |-> TRUE, text |-> t]

FS == [files |-> files, dirs |-> dirs, backups |-> backups]

_timestamp == now

\* _backup: mkdir VibeBackups next to the target, copy the target to
\* <stem>_<timestamp><suffix> (an existing file of that name is overwritten)
BackupDir(target) == IF Parent(target) = "." THEN "VibeBackups" ELSE "sub/VibeBackups"

\* A faulty backup, to test the sensitivity of ConcurrentCallsIndependent:
\* the backup file is named by the timestamp alone, whatever the target.
_backup_by_time(target, bk) ==
  {b \in bk : b.ts # _timestamp}
    \cup {[file |-> target, ts |-> _timestamp, text |-> files[target].text]}

_backup(target, bk) ==
  {b \in bk : ~(b.file = target /\ b.ts = _timestamp)}
    \cup {[file |-> target, ts |-> _timestamp, text |-> files[target].text]}

\* ------------------------------------------------------------------------
\*  apply_patches and apply_patch, step by step
\* ------------------------------------------------------------------------

cur_meta == batch[idx].meta

cur_code == batch[idx].code

cur_target == cur_meta.file

NoRet == [kind |-> "unset", text |-> <<>>]

\* A faulty apply_patches, to test the sensitivity of
\* InvalidRecordTouchesNothing: it calls apply_patch whatever validate_spec
\* says.
AfterValidateIgnored(m) == "exists"

\* apply_patches line 230: validate_spec raises, or apply_patch is called
AfterValidate(m) == IF validate_spec(m) = "ok" THEN "exists" ELSE "failed"

\* A faulty file-existence policy, to test the sensitivity of
\* MissingTargetPolicy: only the add_* types create a missing target.
is_add_only(pt) ==
  pt \in {"add_function", "add_method", "add_class", "add_block"}

is_add_or_replace(pt) ==
  pt \in {"add_function", "add_method", "add_class", "add_block",
          "replace_function", "replace_method", "replace_class", "replace_block"}

\* A faulty apply_patch, to test the sensitivity of BackupBeforeWrite: it
\* reads an existing target without making a backup.
AfterExistsNoBackup(file_existed, pt, d) ==
  IF ~file_existed
  THEN (IF pt \in {"add_function", "add_method", "add_class", "add_block",
                   "replace_function", "replace_method", "replace_class",
                   "replace_block"}
        THEN "mkdir" ELSE "failed")
  ELSE "read"

\* apply_patch lines 799-812: what follows target.exists()
AfterExists(file_existed, pt, d) ==
  IF ~file_existed
  THEN (IF is_add_or_replace(pt) THEN "mkdir" ELSE "failed")
  ELSE (IF ~d THEN "backup" ELSE "read")

\* Two faulty write conditions, to test the sensitivity of DryEqualsLive
\* and of LiveRecordsCompose: the first writes only a changed text to a
\* file that did not exist, the second writes only to a file that did not
\* exist.
ShouldWriteBoth(n, s, file_existed) == n # s /\ ~file_existed

ShouldWriteNewFileOnly(n, s, file_existed) == ~file_existed

\* apply_patch line 1026
ShouldWrite(n, s, file_existed) == n # s \/ ~file_existed

\* A faulty apply_patches, to test the sensitivity of ErrorAbortsBatch: it
\* catches the exception of a record and goes on with the next one.
OnRaiseContinue(i) == [pc |-> "return", idx |-> i]

\* an exception leaves apply_patches: the loop ends at this record
OnRaise(i) == [pc |-> "failed", idx |-> i]

Fail(e) ==
  /\ pc' = OnRaise(idx).pc
  /\ idx' = OnRaise(idx).idx
  /\ err' = e

Validate ==
  /\ pc = "validate"
  /\ IF AfterValidate(cur_meta) = "failed"
     THEN Fail(validate_spec(cur_meta))
     ELSE pc' = AfterValidate(cur_meta) /\ UNCHANGED <<idx, err>>
  /\ UNCHANGED <<files, dirs, backups, now, batch, dry, existed, cur_src, new_src,
                 ret, snap, outs>>
  /\ UNCHANGED env

Exists ==
  /\ pc = "exists"
  /\ existed' = files[cur_target].exists
  /\ IF AfterExists(existed', cur_meta.patch_type, dry) = "failed"
     THEN Fail("FileNotFoundError")
     ELSE pc' = AfterExists(existed', cur_meta.patch_type, dry) /\ UNCHANGED <<idx, err>>
  /\ UNCHANGED <<files, dirs, backups, now, batch, dry, cur_src, new_src, ret, snap, outs>>
  /\ UNCHANGED env

\* target.parent.mkdir(parents=True, exist_ok=True), whatever dry is
MkParents ==
  /\ pc = "mkdir"
  /\ dirs' = dirs \cup (IF Parent(cur_target) = "." THEN {} ELSE {Parent(cur_target)})
  /\ IF dry THEN cur_src' = <<>> /\ pc' = "edit"
     ELSE cur_src' = cur_src /\ pc' = "create"
  /\ UNCHANGED <<files, backups, now, batch, dry, idx, existed, new_src, ret,
                 err, snap, outs>>
  /\ UNCHANGED env

\* target.write_text("")
Create ==
  /\ pc = "create"
  /\ files' = [files EXCEPT ![cur_target] = File(<<>>)]
  /\ cur_src' = <<>>
  /\ pc' = "edit"
  /\ UNCHANGED <<dirs, backups, now, batch, dry, idx, existed, new_src, ret,
                 err, snap, outs>>
  /\ UNCHANGED env

Backup ==
  /\ pc = "backup"
  /\ dirs' = dirs \cup {BackupDir(cur_target)}
  /\ backups' = _backup(cur_target, backups)
  /\ pc' = "read"
  /\ UNCHANGED <<files, now, batch, dry, idx, existed, cur_src, new_src, ret, err,
                 snap, outs>>
  /\ UNCHANGED env

Read ==
  /\ pc = "read"
  /\ cur_src' = files[cur_target].text
  /\ pc' = "edit"
  /\ UNCHANGED <<files, dirs, backups, now, batch, dry, idx, existed, new_src,
                 ret, err, snap, outs>>
  /\ UNCHANGED env

\* the try block, lint_code, and the return of a dry run; r the outcome of
\* the try block
ComputeWith(r) ==
  IF r.err # "none"
  THEN Fail(r.err) /\ UNCHANGED <<new_src, ret, outs>>
  ELSE /\ new_src' = lint_code(r.text)
       /\ UNCHANGED <<idx, err>>
       /\ IF dry
          THEN /\ ret' = [kind |-> "text", text |-> new_src']
               /\ outs' = Append(outs, new_src')
               /\ pc' = "return"
          ELSE /\ pc' = "write"
               /\ UNCHANGED <<ret, outs>>

Compute ==
  /\ pc = "edit"
  /\ ComputeWith(Edit(cur_meta, cur_code, cur_src))
  /\ UNCHANGED <<files, dirs, backups, now, batch, dry, existed, cur_src, snap>>
  /\ UNCHANGED env

Write ==
  /\ pc = "write"
  /\ files' = IF ShouldWrite(new_src, cur_src, existed)
              THEN [files EXCEPT ![cur_target] = File(new_src)]
              ELSE files
  /\ ret' = [kind |-> "None", text |-> <<>>]
  /\ outs' = Append(outs, new_src)
  /\ pc' = "return"
  /\ UNCHANGED <<dirs, backups, now, batch, dry, idx, existed, cur_src, new_src,
                 err, snap>>
  /\ UNCHANGED env

\* the for loop of apply_patches goes to the next record, or ends
NextRecord ==
  /\ pc = "return"
  /\ idx' = idx + 1
  /\ pc' = IF idx' > Len(batch) THEN "done" ELSE "validate"
  /\ snap' = FS
  /\ UNCHANGED <<files, dirs, backups, now, batch, dry, existed, cur_src, new_src,
                 ret, err, outs>>
  /\ UNCHANGED env

\* A second passes.  Only _backup reads the clock, once per record, so it
\* is enough to let the clock move between two records.
Tick ==
  /\ pc = "return"
  /\ now < MaxClock
  /\ now' = now + 1
  /\ UNCHANGED <<files, dirs, backups, batch, dry, idx, pc, existed, cur_src,
                 new_src, ret, err, snap, outs>>
  /\ UNCHANGED env

Next ==
  \/ Validate
  \/ Exists
  \/ MkParents
  \/ Create
  \/ Backup
  \/ Read
  \/ Compute
  \/ Write
  \/ NextRecord
  \/ Tick

\* ------------------------------------------------------------------------
\*  Inputs
\* ------------------------------------------------------------------------

RECURSIVE TextsUpTo(_, _)
TextsUpTo(alphabet, n) ==
  IF n = 0 THEN {<<>>}
  ELSE LET shorter == TextsUpTo(alphabet, n - 1)
       IN shorter \cup {Append(t, l) : t \in shorter, l \in alphabet}

Rec(m, c) == [meta |-> m, code |-> c]

FooCode == <<"def_foo", "body">>

BarCode == <<"def_bar", "body">>

ClassCode == <<"class_C", "body">>

AddFoo(f) == Rec(Meta("add_function", f, "none", "foo", "none", "none", "none", "none"), FooCode)

RemoveFoo(f) == Rec(Meta("remove_function", f, "none", "foo", "none", "none", "none", "none"), <<>>)

\* records of the four families on a.py and on sub/b.py (a file in a
\* directory that may be missing), among them records validate_spec rejects
\* (no class, no anchor_end) and records whose edit raises
Records ==
  {AddFoo("a.py"), RemoveFoo("a.py"), AddFoo("sub/b.py"), RemoveFoo("sub/b.py"),
   Rec(Meta("replace_function", "a.py", "none", "foo", "none", "none", "none", "none"), <<"def_foo", "istmt">>),
   Rec(Meta("add_method", "a.py", "none", "none", "none", "none", "none", "none"), BarCode),
   Rec(Meta("add_method", "a.py", "C", "none", "none", "none", "none", "none"), BarCode),
   Rec(Meta("add_class", "sub/b.py", "none", "none", "none", "none", "none", "none"), <<"stmt">>),
   Rec(Meta("replace_class", "sub/b.py", "none", "C", "none", "none", "none", "none"), ClassCode),
   Rec(Meta("add_block", "a.py", "none", "none", "after", "BEGIN", "none", "none"), <<"stmt">>),
   Rec(Meta("replace_block", "a.py", "none", "none", "none", "none", "BEGIN", "END"), <<"stmt">>),
   Rec(Meta("remove_block", "a.py", "none", "none", "none", "none", "BEGIN", "END"), <<>>),
   Rec(Meta("remove_block", "a.py", "none", "none", "none", "none", "BEGIN", "none"), <<>>)}

Batches == {<<r>> : r \in Records} \cup {<<r, q>> : r \in Records, q \in Records}

FileAlphabet == {"def_foo", "body", "begin", "end"}

InitTexts == TextsUpTo(FileAlphabet, MaxLen)

\* no /revert request
NoRevert == [pc |-> "idle", file |-> "none", sha |-> "none", content |-> <<>>, status |-> 0]

IdleServer == revert = NoRevert

\* no preview: the engine works on the real root
NoFlow == [kind |-> "none", pc |-> "idle"]

IdlePreview ==
  /\ real = [f \in Paths |-> Absent]
  /\ scratch = FALSE
  /\ flow = NoFlow

\* one call only
NoCall == [pc |-> "idle"]

IdleCalls == other = NoCall /\ me = 1

\* no patch document: apply_patches is called with the batch itself
EnvIdle == doc = <<>> /\ IdleServer /\ IdlePreview /\ IdleCalls

InitWith(batches, texts) ==
  /\ batch \in batches
  /\ dry \in BOOLEAN
  /\ \E a \in {Absent} \cup {File(t) : t \in texts} :
       files = [f \in Paths |-> IF f = "a.py" THEN a ELSE Absent]
  /\ dirs \in {{}, {"sub"}}
  /\ backups = {}
  /\ now = 0
  /\ idx = 1
  /\ pc = "validate"
  /\ existed = FALSE
  /\ cur_src = <<>>
  /\ new_src = <<>>
  /\ ret = NoRet
  /\ err = "none"
  /\ snap = [files |-> files, dirs |-> dirs, backups |-> backups]
  /\ outs = <<>>
  /\ EnvIdle

Init == InitWith(Batches, InitTexts)

Spec == Init /\ [][Next]_vars

\* ------------------------------------------------------------------------
\*  A second specification: the two orders of add_function foo and
\*  remove_function foo on one file, over files that hold functions named
\*  foo in every form (plain, async, decorated) and lines that do not parse
\* ------------------------------------------------------------------------

MaxOrderLen == 3

OrderAlphabet == {"def_foo", "adef_foo", "body", "deco", "bad", "blank"}

OrderBatches ==
  {<<AddFoo("a.py"), RemoveFoo("a.py")>>, <<RemoveFoo("a.py"), AddFoo("a.py")>>}

InitOrder == InitWith(OrderBatches, TextsUpTo(OrderAlphabet, MaxOrderLen))

SpecOrder == InitOrder /\ [][Next]_vars

\* ------------------------------------------------------------------------
\*  A third specification: remove_block and replace_block over every short
\*  file of anchor lines, statements and blank lines
\* ------------------------------------------------------------------------

MaxBlockLen == 4

BlockAlphabet == {"begin", "end", "both", "stmt", "blank"}

RemoveBlock ==
  Rec(Meta("remove_block", "a.py", "none", "none", "none", "none", "BEGIN", "END"), <<>>)

ReplaceBlock(c) ==
  Rec(Meta("replace_block", "a.py", "none", "none", "none", "none", "BEGIN", "END"), c)

BlockBatches == {<<RemoveBlock>>, <<ReplaceBlock(<<>>)>>, <<ReplaceBlock(<<"stmt">>)>>}

InitBlock == InitWith(BlockBatches, TextsUpTo(BlockAlphabet, MaxBlockLen))

SpecBlock == InitBlock /\ [][Next]_vars

\* ------------------------------------------------------------------------
\*  Properties
\* ------------------------------------------------------------------------

\* a record is being processed (idx points into the batch)
InRecord == idx \in 1..Len(batch)

\* the content the target had when the current record began ("" if absent)
PreText == IF snap.files[cur_target].exists THEN snap.files[cur_target].text ELSE <<>>

remove_types == {"remove_function", "remove_method", "remove_class", "remove_block"}

\* C1: a record that validate_spec rejects causes no filesystem change:
\* while that record is the current one, files, directories and backups
\* are what they were when the record began, and apply_patch is never
\* entered for it.
InvalidRecordTouchesNothing ==
  (InRecord /\ validate_spec(cur_meta) # "ok")
    => /\ FS = snap
       /\ pc \in {"validate", "failed"}
       /\ pc = "failed" => err = "ValueError"

\* C1 witness: the second record of a live batch has no class for
\* add_method and has been rejected, after the first record wrote a.py.
InvalidRecordRejected ==
  /\ pc = "failed" /\ idx = 2 /\ ~dry
  /\ cur_meta.patch_type = "add_method" /\ cur_meta.class = "none"
  /\ err = "ValueError"
  /\ files["a.py"].exists /\ backups # {}

\* C2: a dry run leaves the filesystem exactly as it was: no file, no
\* directory, no backup is made.
DryRunTouchesNothing == dry => FS = snap

\* C3: dry run and live run compute the same edit.  Both are the same
\* function of the record and of the target's content when the record
\* began: the dry call returns that text, the live call leaves it in the
\* target and returns None.
DryEqualsLive ==
  (pc = "return")
    => IF dry
       THEN ret = [kind |-> "text", text |-> lint_code(Edit(cur_meta, cur_code, PreText).text)]
       ELSE /\ ret = [kind |-> "None", text |-> <<>>]
            /\ files[cur_target] = File(lint_code(Edit(cur_meta, cur_code, PreText).text))

\* C3 witness: a live apply has returned None after changing the content
\* of a target that held text before.
LiveApplyWroteEdit ==
  /\ pc = "return" /\ ~dry /\ ret.kind = "None"
  /\ snap.files[cur_target].exists
  /\ PreText # <<>>
  /\ files[cur_target].text # PreText

\* C4: whenever a step changes a file that existed when the current record
\* began, a backup with the content the file had then is already in the
\* VibeBackups directory next to it.
BackupBeforeWrite ==
  [][\A f \in Paths :
       (snap.files[f].exists /\ files'[f] # files[f])
         => /\ BackupDir(f) \in dirs
            /\ \E b \in backups : b.file = f /\ b.text = snap.files[f].text]_vars

\* C4 witness: a live apply has changed an existing target, and the backup
\* holds the earlier content.
BackedUpThenWritten ==
  /\ pc = "return" /\ ~dry
  /\ snap.files[cur_target].exists
  /\ files[cur_target] # snap.files[cur_target]
  /\ \E b \in backups : b.file = cur_target /\ b.text = snap.files[cur_target].text

\* C5: when validation or application of record k raises, apply_patches
\* ends there with the error: no later record is entered (idx stays at k,
\* exactly k-1 records have completed), and in a live run every file an
\* earlier record wrote last still holds what that record wrote.
ErrorAbortsBatch ==
  (err # "none")
    => /\ pc = "failed"
       /\ InRecord
       /\ Len(outs) = idx - 1
       /\ ~dry =>
            \A j \in 1..(idx - 1) :
              (\A i \in (j + 1)..(idx - 1) : batch[i].meta.file # batch[j].meta.file)
                => files[batch[j].meta.file] = File(outs[j])

\* C5 witness: the second record of a live batch raised after the first
\* record had changed a file.
SecondRecordRaised ==
  /\ err # "none" /\ idx = 2 /\ ~dry
  /\ outs[1] # <<>>
  /\ files[batch[1].meta.file] = File(outs[1])
  /\ \E b \in backups : b.file = batch[1].meta.file /\ b.text # outs[1]

\* C6 as stated: for either value of dry, the text the second record edits
\* is the result of the first record's edit of the same file.
RecordsCompose ==
  (idx = 2 /\ pc = "edit" /\ batch[1].meta.file = cur_target)
    => cur_src = outs[1]

\* C6 amended: in a live batch the text the second record edits is the
\* result of the first record's edit of the same file; in a dry batch
\* nothing is written, so the second record edits what the file held before
\* the batch.
LiveRecordsCompose ==
  (idx = 2 /\ pc = "edit" /\ batch[1].meta.file = cur_target)
    => IF dry THEN cur_src = PreText /\ FS.files = snap.files
       ELSE cur_src = outs[1]

\* C6 witness: the second record of a live batch is about to edit the text
\* the first record wrote, which differs from what the file held before.
SecondEditsFirstResult ==
  /\ idx = 2 /\ pc = "edit" /\ ~dry
  /\ batch[1].meta.file = cur_target
  /\ cur_src = outs[1] /\ outs[1] # <<>>
  /\ \E b \in backups : b.file = cur_target /\ b.ts = 0 /\ b.text # outs[1]

\* a line that defines a top-level function foo
DefinesFoo(t) == \E i \in 1..Len(t) : t[i] \in {"def_foo", "adef_foo"}

\* C7: a live batch add_function foo, remove_function foo leaves a file
\* with no top-level function foo; the batch remove_function foo,
\* add_function foo leaves a file that contains foo; whatever the file held.
OrderDecidesFoo ==
  (pc = "done" /\ ~dry)
    => IF batch[1] = AddFoo("a.py")
       THEN ~DefinesFoo(files["a.py"].text)
       ELSE DefinesFoo(files["a.py"].text)

\* C8: with a missing target, a live add_* or replace_* creates the file
\* and its parent directory and does not raise for the missing file, and a
\* remove_* raises FileNotFoundError and creates nothing.
MissingTargetPolicy ==
  (InRecord /\ validate_spec(cur_meta) = "ok" /\ ~snap.files[cur_target].exists)
    => IF cur_meta.patch_type \in remove_types
       THEN /\ FS = snap
            /\ pc \in {"validate", "exists", "failed"}
            /\ pc = "failed" => err = "FileNotFoundError"
       ELSE /\ err # "FileNotFoundError"
            /\ (~dry /\ pc \in {"edit", "write", "return", "failed"})
                 => /\ files[cur_target].exists
                    /\ Parent(cur_target) \in dirs \cup {"."}

\* C8 witness: a live replace_class has created sub/b.py and the directory
\* sub, neither of which existed.
MissingTargetCreated ==
  /\ pc = "return" /\ ~dry
  /\ cur_meta.patch_type = "replace_class" /\ cur_target = "sub/b.py"
  /\ ~snap.files[cur_target].exists /\ "sub" \notin snap.dirs
  /\ files[cur_target].exists /\ "sub" \in dirs

\* the first line of t from i on that pat matches, or 0
FirstLineIn(t, pat, i) ==
  IF \E k \in i..Len(t) : t[k] \in pat
  THEN CHOOSE k \in i..Len(t) : t[k] \in pat /\ \A h \in i..(k - 1) : t[h] \notin pat
  ELSE 0

WindowStart == FirstLineIn(cur_src, Matches(cur_meta.anchor_start), 1)

WindowEnd == FirstLineIn(cur_src, Matches(cur_meta.anchor_end), WindowStart + 1)

ReplaceEmptyIsRemove ==
  (pc = "edit" /\ cur_meta.patch_type = "replace_block" /\ RStripBlank(cur_code) = <<>>)
    => Edit(cur_meta, cur_code, cur_src)
         = Ok(_perform_anchor_block_removal(cur_src, Matches(cur_meta.anchor_start),
                                            Matches(cur_meta.anchor_end)))

\* ------------------------------------------------------------------------
\*  A fourth specification: add_block before / after an anchor and
\*  replace_block, over every short file of anchor lines, statements,
\*  indented lines and blank lines
\* ------------------------------------------------------------------------

MaxAnchorLen == 3

AnchorAlphabet == {"begin", "end", "stmt", "body", "blank"}

AddBlock(pos) ==
  Rec(Meta("add_block", "a.py", "none", "none", pos, "BEGIN", "none", "none"), <<"stmt">>)

AnchorBatches == {<<AddBlock("before")>>, <<AddBlock("after")>>, <<ReplaceBlock(<<"stmt">>)>>}

\* as InitWith, with no directory besides the root
InitEdit(batches, texts) ==
  /\ batch \in batches
  /\ dry \in BOOLEAN
  /\ \E a \in {Absent} \cup {File(t) : t \in texts} :
       files = [f \in Paths |-> IF f = "a.py" THEN a ELSE Absent]
  /\ dirs = {}
  /\ backups = {}
  /\ now = 0
  /\ idx = 1
  /\ pc = "validate"
  /\ existed = FALSE
  /\ cur_src = <<>>
  /\ new_src = <<>>
  /\ ret = NoRet
  /\ err = "none"
  /\ snap = [files |-> files, dirs |-> dirs, backups |-> backups]
  /\ outs = <<>>
  /\ EnvIdle

InitAnchor == InitEdit(AnchorBatches, TextsUpTo(AnchorAlphabet, MaxAnchorLen))

SpecAnchor == InitAnchor /\ [][Next]_vars

IsPrefix(p, t) == Len(p) <= Len(t) /\ SubSeq(t, 1, Len(p)) = p

IsSuffix(p, t) == Len(p) <= Len(t) /\ SubSeq(t, Len(t) - Len(p) + 1, Len(t)) = p

\* the text without the blank lines at its end, written without recursion
WithoutTrailingBlanks(t) ==
  LET keep == {i \in 1..Len(t) : ~IsBlank(t[i])}
  IN IF keep = {} THEN <<>>
     ELSE SubSeq(t, 1, CHOOSE i \in keep : \A k \in keep : k <= i)

\* the current record is an add_block before / after or a replace_block
\* whose anchors find no place in cur_src
AnchorMiss ==
  \/ /\ cur_meta.patch_type = "add_block"
     /\ cur_meta.position \in {"before", "after"}
     /\ FirstLineIn(cur_src, Matches(cur_meta.anchor), 1) = 0
  \/ /\ cur_meta.patch_type = "replace_block"
     /\ \/ WindowStart = 0
        \/ FirstLineIn(cur_src, Matches(cur_meta.anchor_end), WindowStart) = 0

AnchorLine == FirstLineIn(cur_src, Matches(cur_meta.anchor), 1)

\* line m of t opens an indented block: the next non-blank line is
\* indented deeper
OpensBlock(t, m) ==
  \E j \in (m + 1)..Len(t) :
    /\ ~IsBlank(t[j]) /\ Indent(t[j]) > Indent(t[m])
    /\ \A k \in (m + 1)..(j - 1) : IsBlank(t[k])

\* C12: add_block with position after, on an anchor line that opens no
\* indented block, puts the new code on the line directly after the anchor
\* line: the lines up to the anchor line stay and the code follows at once.
AfterAnchorIsDirectlyAfter ==
  (pc = "edit" /\ cur_meta.patch_type = "add_block" /\ cur_meta.position = "after"
     /\ AnchorLine # 0 /\ ~OpensBlock(cur_src, AnchorLine))
    => /\ Edit(cur_meta, cur_code, cur_src).err = "none"
       /\ IsPrefix(SubSeq(cur_src, 1, AnchorLine) \o cur_code,
                   Edit(cur_meta, cur_code, cur_src).text)

\* ------------------------------------------------------------------------
\*  A fifth specification: the function, method and class records over
\*  files built from whole constructs (statements, functions with and
\*  without decorator, async functions, classes with and without methods),
\*  blank lines and a line that does not parse
\* ------------------------------------------------------------------------

MaxUnits == 2

Units ==
  {<<"stmt">>, <<"blank">>, <<"bad">>,
   <<"def_foo", "body">>, <<"def_bar", "body">>, <<"deco", "def_foo", "body">>,
   <<"adef_foo", "body">>,
   <<"class_C", "body">>, <<"class_C", "mdef_bar", "mbody">>,
   <<"class_C", "mdeco", "mdef_bar", "mbody">>}

RECURSIVE UnitTextsUpTo(_)
UnitTextsUpTo(n) ==
  IF n = 0 THEN {<<>>}
  ELSE LET shorter == UnitTextsUpTo(n - 1)
       IN shorter \cup {t \o u : t \in shorter, u \in Units}

AddFooNoName ==
  Rec(Meta("add_function", "a.py", "none", "none", "none", "none", "none", "none"), FooCode)

ReplaceFoo ==
  Rec(Meta("replace_function", "a.py", "none", "foo", "none", "none", "none", "none"), FooCode)

ConstructRecords ==
  {AddFoo("a.py"), AddFooNoName, ReplaceFoo, RemoveFoo("a.py"),
   Rec(Meta("add_method", "a.py", "C", "none", "none", "none", "none", "none"), BarCode),
   Rec(Meta("replace_method", "a.py", "C", "bar", "none", "none", "none", "none"), BarCode),
   Rec(Meta("remove_method", "a.py", "C", "bar", "none", "none", "none", "none"), <<>>),
   Rec(Meta("add_class", "a.py", "none", "none", "none", "none", "none", "none"), ClassCode),
   Rec(Meta("replace_class", "a.py", "none", "C", "none", "none", "none", "none"), ClassCode),
   Rec(Meta("remove_class", "a.py", "none", "C", "none", "none", "none", "none"), <<>>)}

\* every record alone, and replace_function given twice
ConstructBatches == {<<r>> : r \in ConstructRecords} \cup {<<ReplaceFoo, ReplaceFoo>>}

InitConstruct == InitEdit(ConstructBatches, UnitTextsUpTo(MaxUnits))

SpecConstruct == InitConstruct /\ [][Next]_vars

\* the number of lines of t that are in S
Count(t, S) == Cardinality({i \in 1..Len(t) : t[i] \in S})

\* the header lines that define what the current add_* record adds, in the
\* scope it targets
AddedHeaders ==
  CASE cur_meta.patch_type = "add_function" -> {"def_foo", "adef_foo"}
    [] cur_meta.patch_type = "add_method" -> {"mdef_bar"}
    [] OTHER -> {"class_C"}

\* C13: add_* is an upsert: after an add_function, add_method or add_class
\* record the result holds exactly one definition of the construct the
\* code defines, whether or not the file held one and whether or not the
\* record has a name key.  (Stated for files that parse and hold at most
\* one class, and for edits that do not raise.)
AddIsUpsert ==
  (pc = "edit"
     /\ cur_meta.patch_type \in {"add_function", "add_method", "add_class"}
     /\ Parse(cur_src).ok /\ Count(cur_src, {"class_C"}) <= 1
     /\ Edit(cur_meta, cur_code, cur_src).err = "none")
    => Count(Edit(cur_meta, cur_code, cur_src).text, AddedHeaders) = 1

\* the text without its blank lines
NonBlank(t) == SelectSeq(t, LAMBDA l : ~IsBlank(l))

\* what a file looks like, blank lines aside, when block takes the place
\* of lines a..b of t
SplicedAt(t, a, b, block) ==
  NonBlank(SubSeq(t, 1, a - 1)) \o NonBlank(block) \o NonBlank(SubSeq(t, b + 1, Len(t)))

\* the syntactic extent (decorators to last line) of the first top-level
\* construct of cur_src with one of the kinds and the name, found = FALSE
\* when there is none or cur_src does not parse
ExtentOf(kinds, name) ==
  LET body == Parse(cur_src).body
      hits == {k \in 1..Len(body) : body[k].kind \in kinds /\ body[k].name = name}
      first == CHOOSE k \in hits : \A h \in hits : k <= h
  IN IF ~Parse(cur_src).ok \/ hits = {} THEN NotFound
     ELSE [found |-> TRUE,
           start |-> IF body[first].deco < body[first].lineno
                     THEN body[first].deco ELSE body[first].lineno,
           end |-> body[first].end_lineno]

\* the construct the current function or class record names
NamedExtent ==
  IF cur_meta.patch_type \in {"add_function", "replace_function"}
  THEN ExtentOf({"FunctionDef", "AsyncFunctionDef"}, "foo")
  ELSE ExtentOf({"ClassDef"}, "C")

NamedHeaders ==
  IF cur_meta.patch_type \in {"add_function", "replace_function"}
  THEN {"def_foo", "adef_foo"}
  ELSE {"class_C"}

\* C14: when the named top-level function or class exists, add_function,
\* add_class, replace_function and replace_class put the new code where
\* the old extent was: the lines before it and the lines after it stay
\* where they are (blank lines aside).
ReplacesInPlace ==
  (pc = "edit"
     /\ cur_meta.patch_type \in {"add_function", "add_class", "replace_function",
                                 "replace_class"}
     /\ NamedExtent.found /\ Count(cur_src, NamedHeaders) = 1)
    => /\ Edit(cur_meta, cur_code, cur_src).err = "none"
       /\ NonBlank(Edit(cur_meta, cur_code, cur_src).text)
            = SplicedAt(cur_src, NamedExtent.start, NamedExtent.end, cur_code)

FirstClassLine == FirstLineIn(cur_src, {"class_C"}, 1)

\* C15: when the named construct is not found, add / replace of a
\* top-level function or class puts the new code before the first class of
\* the file (at end of file when the file has no class), and add / replace
\* of a method puts it after the last member of the named class (blank
\* lines aside; for files that parse).
NotFoundInsertsBeforeClass ==
  (pc = "edit" /\ Parse(cur_src).ok)
    => /\ (cur_meta.patch_type \in {"add_function", "replace_function", "add_class",
                                    "replace_class"}
             /\ Count(cur_src, NamedHeaders) = 0)
            => /\ Edit(cur_meta, cur_code, cur_src).err = "none"
               /\ NonBlank(Edit(cur_meta, cur_code, cur_src).text)
                    = IF FirstClassLine # 0
                      THEN SplicedAt(cur_src, FirstClassLine, FirstClassLine - 1, cur_code)
                      ELSE NonBlank(cur_src) \o cur_code
       /\ (cur_meta.patch_type \in {"add_method", "replace_method"}
             /\ Count(cur_src, {"class_C"}) = 1 /\ Count(cur_src, {"mdef_bar"}) = 0)
            => /\ Edit(cur_meta, cur_code, cur_src).err = "none"
               /\ NonBlank(Edit(cur_meta, cur_code, cur_src).text)
                    = SplicedAt(cur_src, ExtentOf({"ClassDef"}, "C").end + 1,
                                ExtentOf({"ClassDef"}, "C").end,
                                _reindent_code_block(cur_code, IndentStep))

\* C16: add_method on a class that already has the method replaces only
\* that method's lines (decorators, header and body): the lines before the
\* method and the lines after it are kept, in order (blank lines aside).
AddMethodReplacesOnlyMethod ==
  (pc = "edit" /\ cur_meta.patch_type = "add_method"
     /\ get_method_extent_ast(cur_src, "C", "bar").found)
    => /\ Edit(cur_meta, cur_code, cur_src).err = "none"
       /\ NonBlank(Edit(cur_meta, cur_code, cur_src).text)
            = SplicedAt(cur_src, get_method_extent_ast(cur_src, "C", "bar").start,
                        get_method_extent_ast(cur_src, "C", "bar").end,
                        _reindent_code_block(cur_code, IndentStep))

\* C17: replace_function is idempotent: applying a replace_function record
\* to the result of applying it once gives that result again.
ReplaceFunctionIdempotent ==
  (pc = "edit" /\ cur_meta.patch_type = "replace_function"
     /\ Edit(cur_meta, cur_code, cur_src).err = "none")
    => Edit(cur_meta, cur_code, Edit(cur_meta, cur_code, cur_src).text)
         = Edit(cur_meta, cur_code, cur_src)

\* the construct the current remove record names does not occur in cur_src
NamedConstructAbsent ==
  CASE cur_meta.patch_type = "remove_function" ->
         Count(cur_src, {"def_foo", "adef_foo"}) = 0
    [] cur_meta.patch_type = "remove_class" -> Count(cur_src, {"class_C"}) = 0
    [] cur_meta.patch_type = "remove_method" ->
         Count(cur_src, {"class_C"}) = 0 \/ Count(cur_src, {"mdef_bar", "mdeco"}) = 0
    [] OTHER -> FALSE

\* C18: remove_function, remove_method and remove_class on a file that does
\* not contain the named construct do not raise and return the source text
\* unchanged.
RemoveAbsentIsNoOp ==
  (pc = "edit" /\ cur_meta.patch_type \in {"remove_function", "remove_method", "remove_class"}
     /\ NamedConstructAbsent)
    => Edit(cur_meta, cur_code, cur_src) = Ok(cur_src)

\* C18 witness: remove_function foo on a file without foo that ends in a
\* blank line is about to return the file as it is.
RemoveAbsentOnFile ==
  /\ pc = "edit" /\ cur_meta.patch_type = "remove_function"
  /\ cur_src = <<"def_bar", "body", "blank">>
  /\ Edit(cur_meta, cur_code, cur_src) = Ok(cur_src)

\* the construct the current add / replace record names does not occur in
\* cur_src (for a method: the method or its enclosing class)
NamedTargetAbsent ==
  CASE cur_meta.patch_type \in {"add_function", "replace_function"} ->
         Count(cur_src, {"def_foo", "adef_foo"}) = 0
    [] cur_meta.patch_type \in {"add_class", "replace_class"} ->
         Count(cur_src, {"class_C"}) = 0
    [] cur_meta.patch_type \in {"add_method", "replace_method"} ->
         Count(cur_src, {"class_C"}) = 0 \/ Count(cur_src, {"mdef_bar", "mdeco"}) = 0
    [] OTHER -> FALSE

\* t holds the lines of block, in order and next to each other
Contains(t, block) ==
  \E i \in 0..(Len(t) - Len(block)) : SubSeq(t, i + 1, i + Len(block)) = block

\* C19: an add_* or replace_* record whose named function, method, class or
\* enclosing class is absent from the target never raises, and the result
\* holds the supplied code.
NotFoundNeverRaises ==
  (pc = "edit" /\ NamedTargetAbsent)
    => /\ Edit(cur_meta, cur_code, cur_src).err = "none"
       /\ \/ Contains(Edit(cur_meta, cur_code, cur_src).text, cur_code)
          \/ Contains(Edit(cur_meta, cur_code, cur_src).text,
                      _reindent_code_block(cur_code, IndentStep))

\* ------------------------------------------------------------------------
\*  Metadata records for validate_spec: every combination of the keys it
\*  reads, each key absent ("none") or present
\* ------------------------------------------------------------------------

MetaSpace ==
  {[Meta(pt, "a.py", c, n, p, a, s, e) EXCEPT !.VibeSpec = v] :
     pt \in allowed_patch_types \cup {"move_function"},
     c \in {"none", "C"}, n \in {"none", "foo"},
     p \in {"none", "start", "before", "after", "middle"},
     a \in {"none", "BEGIN"}, s \in {"none", "BEGIN"}, e \in {"none", "END"},
     v \in {"1.6", "0.9"}}

ValidateBatches == {<<Rec(m, FooCode)>> : m \in MetaSpace}

InitValidate == InitEdit(ValidateBatches, {<<"begin", "stmt", "end">>})

SpecValidate == InitValidate /\ [][Next]_vars

\* the record has the three required keys, a supported version and an
\* allowed patch type
WellFormed(meta) ==
  /\ "none" \notin {meta.VibeSpec, meta.patch_type, meta.file}
  /\ meta.VibeSpec \in supported_versions
  /\ meta.patch_type \in allowed_patch_types

HasClassIfMethod(meta) ==
  meta.patch_type \in {"add_method", "replace_method", "remove_method"}
    => meta.class # "none"

HasNameIfByName(meta) ==
  meta.patch_type \in {"replace_function", "replace_method", "replace_class",
                       "remove_function", "remove_method", "remove_class"}
    => meta.name # "none"

\* C20 as stated: a well-formed record is accepted exactly when a
\* method-scoped type has a class, a replace / remove by name has a name,
\* and an add_block with position before or after has an anchor and a
\* position within {start, end, before, after}.
ValidateAcceptsAsStated ==
  (pc = "validate" /\ WellFormed(cur_meta))
    => (validate_spec(cur_meta) = "ok"
          <=> /\ HasClassIfMethod(cur_meta)
              /\ HasNameIfByName(cur_meta)
              /\ (cur_meta.patch_type = "add_block"
                    /\ cur_meta.position \in {"before", "after"})
                   => /\ cur_meta.anchor # "none"
                      /\ cur_meta.position \in {"start", "end", "before", "after"})

\* C20, amended: for the patch types other than remove_block and
\* replace_block, a well-formed record is accepted exactly when a
\* method-scoped type has a class, a replace / remove by name has a name,
\* and an add_block has a position (end when absent) within {start, end,
\* before, after} and, when that is before or after, an anchor.
ValidateAcceptsExactly ==
  (pc = "validate" /\ WellFormed(cur_meta)
     /\ cur_meta.patch_type \notin {"remove_block", "replace_block"})
    => (validate_spec(cur_meta) = "ok"
          <=> /\ HasClassIfMethod(cur_meta)
              /\ HasNameIfByName(cur_meta)
              /\ cur_meta.patch_type = "add_block"
                   => /\ cur_meta.position \in {"none", "start", "end", "before", "after"}
                      /\ cur_meta.position \in {"before", "after"}
                           => cur_meta.anchor # "none")

\* C20 witness: a replace_function record with a class and anchors but no
\* name has been rejected by validate_spec.
NamelessReplaceRejected ==
  /\ pc = "failed" /\ idx = 1 /\ err = "ValueError"
  /\ WellFormed(cur_meta)
  /\ cur_meta.patch_type = "replace_function"
  /\ cur_meta.name = "none" /\ cur_meta.class = "C"
  /\ validate_spec(cur_meta) = "ValueError"

\* C21: for remove_block and replace_block the anchors are both-or-neither:
\* a well-formed record with exactly one of anchor_start and anchor_end is
\* rejected, one with both and one with neither are accepted.
AnchorsBothOrNeither ==
  (pc = "validate" /\ WellFormed(cur_meta)
     /\ cur_meta.patch_type \in {"remove_block", "replace_block"})
    => (validate_spec(cur_meta) = "ok"
          <=> ((cur_meta.anchor_start = "none") <=> (cur_meta.anchor_end = "none")))

\* ------------------------------------------------------------------------
\*  load_patches.  A patch document is a sequence of lines:
\*    "hdr16"    # VibeSpec: 1.6          "file"    file: a.py
\*    "pt_block" patch_type: add_block    "marker"  --- code: |
\*    "pt_func"  patch_type: add_function "icode"       x = 1
\*    "stray"    stray text               "blank"   (empty line)
\* ------------------------------------------------------------------------

IsSpecHeader(l) == l = "hdr16"

VersionOf(l) == IF l = "hdr16" THEN "1.6" ELSE "none"

IsPatchTypeLine(l) == l \in {"pt_block", "pt_func"}

PatchTypeOf(l) ==
  CASE l = "pt_block" -> "add_block" [] l = "pt_func" -> "add_function" [] OTHER -> "none"

IsCodeMarker(l) == l = "marker"

\* lines[i].startswith((" ", "\t")) or not lines[i].strip()
IsLiteralLine(l) == l \in {"icode", "blank"}

\* first index >= i of a line that starts with patch_type:, else Len + 1
RECURSIVE SkipToPatchType(_, _)
SkipToPatchType(lines, i) ==
  IF i > Len(lines) \/ IsPatchTypeLine(lines[i]) THEN i
  ELSE SkipToPatchType(lines, i + 1)

\* first index >= i of a code marker, a patch_type line or a blank line,
\* else Len + 1
RECURSIVE MetaEnd(_, _)
MetaEnd(lines, i) ==
  IF i > Len(lines) \/ IsCodeMarker(lines[i]) \/ IsPatchTypeLine(lines[i])
       \/ IsBlank(lines[i])
  THEN i
  ELSE MetaEnd(lines, i + 1)

\* where the metadata of the record that starts at p ends: nothing is
\* absorbed when the document ended before a patch_type line was found
MetaAfter(lines, p) == IF p > Len(lines) THEN p ELSE MetaEnd(lines, p + 1)

\* first index >= i of a line that is neither indented nor blank, else Len + 1
RECURSIVE CodeEnd(_, _)
CodeEnd(lines, i) ==
  IF i > Len(lines) \/ ~IsLiteralLine(lines[i]) THEN i
  ELSE CodeEnd(lines, i + 1)

\* yaml.safe_load of the metadata lines: a line without a colon is not a
\* mapping entry (yaml raises), a # line is a comment
YamlFails(meta_lines) == \E k \in 1..Len(meta_lines) : meta_lines[k] = "stray"

KeyIn(meta_lines, l) == \E k \in 1..Len(meta_lines) : meta_lines[k] = l

\* meta of a record: the mapping of meta_lines, VibeSpec set when a header
\* has been seen
LoadedMeta(meta_lines, current_version) ==
  [Meta(IF meta_lines = <<>> THEN "none" ELSE PatchTypeOf(meta_lines[1]),
        IF KeyIn(meta_lines, "file") THEN "a.py" ELSE "none",
        "none", "none", "none", "none", "none", "none")
     EXCEPT !.VibeSpec = current_version]

\* dedent("\n".join(code_lines)).rstrip("\n")
RECURSIVE Dedent(_)
Dedent(code_lines) ==
  IF code_lines = <<>> THEN <<>>
  ELSE <<IF Head(code_lines) = "icode" THEN "stmt" ELSE "blank">>
         \o Dedent(Tail(code_lines))

LoadedCode(lines, m) ==
  IF m <= Len(lines) /\ IsCodeMarker(lines[m])
  THEN RStripBlank(Dedent(SubSeq(lines, m + 1, CodeEnd(lines, m + 1) - 1)))
  ELSE <<>>

\* where the loop goes on after the record whose metadata ends before m
AfterRecord(lines, m) ==
  IF m <= Len(lines) /\ IsCodeMarker(lines[m]) THEN CodeEnd(lines, m + 1) ELSE m

Loaded(patches) == [err |-> "none", patches |-> patches]

LoadRaises(e) == [err |-> e, patches |-> <<>>]

\* the while loop of load_patches from line i on
RECURSIVE LoadFrom(_, _, _, _)
\* one record: p is the patch_type line (Len + 1 when there is none), the
\* metadata lines are p..m-1
LoadRecord(lines, p, m, current_version, patches) ==
  IF YamlFails(SubSeq(lines, p, m - 1)) THEN LoadRaises("YAMLError")
  ELSE LoadFrom(lines, AfterRecord(lines, m), current_version,
                Append(patches, Rec(LoadedMeta(SubSeq(lines, p, m - 1), current_version),
                                    LoadedCode(lines, m))))

LoadFrom(lines, i, current_version, patches) ==
  IF i > Len(lines) THEN Loaded(patches)
  ELSE IF IsBlank(lines[i]) THEN LoadFrom(lines, i + 1, current_version, patches)
  ELSE IF IsSpecHeader(lines[i])
  THEN LoadFrom(lines, i + 1, VersionOf(lines[i]), patches)
  ELSE LoadRecord(lines, SkipToPatchType(lines, i),
                  MetaAfter(lines, SkipToPatchType(lines, i)), current_version,
                  patches)

load_patches(lines) == LoadFrom(lines, 1, "none", <<>>)

\* cmd_apply: load_patches, then apply_patches on what it returned
Load ==
  /\ pc = "load"
  /\ IF load_patches(doc).err # "none"
     THEN err' = load_patches(doc).err /\ pc' = "failed" /\ batch' = batch
     ELSE /\ batch' = load_patches(doc).patches
          /\ pc' = IF batch' = <<>> THEN "done" ELSE "validate"
          /\ err' = err
  /\ UNCHANGED <<files, dirs, backups, now, dry, idx, existed, cur_src, new_src,
                 ret, snap, outs, doc, serverVars, previewVars, callVars>>

NextLoad ==
  \/ Load
  \/ Next

MaxDocUnits == 4

DocUnits ==
  {<<"hdr16">>, <<"pt_block">>, <<"pt_func">>, <<"file">>, <<"marker", "icode">>,
   <<"marker">>, <<"blank">>, <<"stray">>}

RECURSIVE DocsUpTo(_)
DocsUpTo(n) ==
  IF n = 0 THEN {<<>>}
  ELSE DocsUpTo(n - 1) \cup {d \o u : d \in DocsUpTo(n - 1), u \in DocUnits}

InitLoad ==
  /\ doc \in DocsUpTo(MaxDocUnits)
  /\ batch = <<>>
  /\ dry \in BOOLEAN
  /\ \E a \in {Absent, File(<<"stmt">>)} :
       files = [f \in Paths |-> IF f = "a.py" THEN a ELSE Absent]
  /\ dirs = {}
  /\ backups = {}
  /\ now = 0
  /\ idx = 1
  /\ pc = "load"
  /\ existed = FALSE
  /\ cur_src = <<>>
  /\ new_src = <<>>
  /\ ret = NoRet
  /\ err = "none"
  /\ snap = [files |-> files, dirs |-> dirs, backups |-> backups]
  /\ outs = <<>>
  /\ IdleServer /\ IdlePreview /\ IdleCalls

SpecLoad == InitLoad /\ [][NextLoad]_vars

\* the indices of the lines of doc that start with patch_type:, ascending
PatchTypeLines == SelectSeq([i \in 1..Len(doc) |-> i], LAMBDA i : IsPatchTypeLine(doc[i]))

\* no code marker between the patch_type line p and the next one (or the
\* end of the document)
NoMarkerAfter(p) ==
  \A k \in (p + 1)..(SkipToPatchType(doc, p + 1) - 1) : ~IsCodeMarker(doc[k])

\* C22: a document in which a record starts with a patch_type line and no
\* code marker follows before the next record or the end of the document
\* does not load: load_patches fails instead of returning a record.
RecordWithoutCodeFails ==
  (pc = "load" /\ \E k \in 1..Len(PatchTypeLines) : NoMarkerAfter(PatchTypeLines[k]))
    => load_patches(doc).err # "none"

\* the version of the last spec header before line p, "none" without one
HeaderBefore(p) ==
  IF \E k \in 1..(p - 1) : IsSpecHeader(doc[k]) THEN "1.6" ELSE "none"

\* C23: load_patches returns one record per patch_type line, in document
\* order, each with that line's patch_type and the version of the header
\* before it; no other line makes a record.
OneRecordPerPatchTypeLine ==
  (pc = "load" /\ load_patches(doc).err = "none")
    => /\ Len(load_patches(doc).patches) = Len(PatchTypeLines)
       /\ \A k \in 1..Len(PatchTypeLines) :
            /\ load_patches(doc).patches[k].meta.patch_type
                 = PatchTypeOf(doc[PatchTypeLines[k]])
            /\ load_patches(doc).patches[k].meta.VibeSpec
                 = HeaderBefore(PatchTypeLines[k])

\* C24: a live add_class on a target that did not exist leaves a file that
\* holds exactly the class definition of the record: no blank line before
\* it and nothing else.
NewFileHoldsExactlyClass ==
  (pc = "return" /\ InRecord /\ ~dry /\ cur_meta.patch_type = "add_class"
     /\ ~snap.files[cur_target].exists)
    => files[cur_target] = File(cur_code)

\* C25: when the source does not parse, the function operations still find
\* an existing foo: replace_function leaves one foo (the new one),
\* remove_function leaves none, and add_function does not raise.
UnparsableStillLocates ==
  (pc = "edit" /\ ~Parse(cur_src).ok
     /\ Count(cur_src, {"def_foo", "adef_foo"}) = 1
     /\ cur_meta.patch_type \in {"replace_function", "remove_function", "add_function"})
    => /\ Edit(cur_meta, cur_code, cur_src).err = "none"
       /\ cur_meta.patch_type = "replace_function"
            => /\ Count(Edit(cur_meta, cur_code, cur_src).text, {"def_foo", "adef_foo"}) = 1
               /\ Contains(Edit(cur_meta, cur_code, cur_src).text, cur_code)
       /\ cur_meta.patch_type = "remove_function"
            => Count(Edit(cur_meta, cur_code, cur_src).text, {"def_foo", "adef_foo"}) = 0

\* ------------------------------------------------------------------------
\*  The server's /revert (src/server.py, revert_version).  A sha is a
\*  backup timestamp (0, 1, ...) or GitSha, a commit id.
\* ------------------------------------------------------------------------

GitSha == -1

MaxRevertLen == 2

RevertTexts == TextsUpTo({"stmt", "body"}, MaxRevertLen)

\* the backup file <stem>_<sha><suffix> next to the target, as a set
BackupAt(target, sha) == {b \in backups : b.file = target /\ b.ts = sha}

\* what git show can give: nothing (no repository, unknown commit), or a text
GitOutcomes == {[ok |-> FALSE, text |-> <<>>]} \cup {[ok |-> TRUE, text |-> t] : t \in RevertTexts}

\* lines 651-672: version_content comes from the backup file of that
\* timestamp if there is one, else from git; 404 when neither has it
RevertLookup ==
  /\ revert.pc = "lookup"
  /\ IF revert.sha # GitSha /\ BackupAt(revert.file, revert.sha) # {}
     THEN revert' = [revert EXCEPT
                       !.content = (CHOOSE b \in BackupAt(revert.file, revert.sha) : TRUE).text,
                       !.pc = "backup"]
     ELSE \E g \in GitOutcomes :
            revert' = IF g.ok THEN [revert EXCEPT !.content = g.text, !.pc = "backup"]
                      ELSE [revert EXCEPT !.status = 404, !.pc = "done"]
  /\ UNCHANGED <<files, dirs, backups, now, batch, dry, idx, pc, existed, cur_src,
                 new_src, ret, err, snap, outs, doc, previewVars, callVars>>

\* lines 673-677: a failed backup answers 500 and returns
AfterRevertBackup(backed_up) == IF backed_up THEN "write" ELSE "done"

\* _backup(target).  With vibe_cli imported it is vibe_cli._backup: mkdir
\* VibeBackups, then copy2, which raises when the target does not exist.
\* When the import failed (server.py lines 32-38) it is a function that
\* logs a warning and does nothing.
RevertBackup ==
  /\ revert.pc = "backup"
  /\ IF revert.backup = "dummy"
     THEN /\ revert' = [revert EXCEPT !.pc = "write"]
          /\ UNCHANGED <<dirs, backups>>
     ELSE /\ dirs' = dirs \cup {BackupDir(revert.file)}
          /\ backups' = IF files[revert.file].exists
                        THEN _backup(revert.file, backups) ELSE backups
          /\ revert' = [revert EXCEPT
                          !.pc = AfterRevertBackup(files[revert.file].exists),
                          !.status = IF AfterRevertBackup(files[revert.file].exists) = "done"
                                     THEN 500 ELSE 0]
  /\ UNCHANGED <<files, now, batch, dry, idx, pc, existed, cur_src,
                 new_src, ret, err, snap, outs, doc, previewVars, callVars>>

\* lines 678-680: target.write_text(version_content), 204
RevertWrite ==
  /\ revert.pc = "write"
  /\ files' = [files EXCEPT ![revert.file] = File(revert.content)]
  /\ revert' = [revert EXCEPT !.pc = "done", !.status = 204]
  /\ UNCHANGED <<dirs, backups, now, batch, dry, idx, pc, existed, cur_src,
                 new_src, ret, err, snap, outs, doc, previewVars, callVars>>

NextRevert ==
  \/ RevertLookup
  \/ RevertBackup
  \/ RevertWrite

\* a /revert request for a.py arrives at a server whose root holds a.py or
\* not, with or without a backup of it; no apply is running
InitRevert ==
  /\ \E sha \in {GitSha} \cup (0..MaxClock), impl \in {"vibe_cli", "dummy"} :
       revert = [pc |-> "lookup", file |-> "a.py", sha |-> sha, content |-> <<>>,
                 status |-> 0, backup |-> impl]
  /\ \E a \in {Absent} \cup {File(t) : t \in RevertTexts} :
       files = [f \in Paths |-> IF f = "a.py" THEN a ELSE Absent]
  /\ backups \in {{}} \cup {{[file |-> "a.py", ts |-> 0, text |-> t]} : t \in RevertTexts}
  /\ dirs = IF backups = {} THEN {} ELSE {"VibeBackups"}
  /\ now \in 0..MaxClock
  /\ batch = <<>> /\ dry = FALSE /\ idx = 1 /\ pc = "done"
  /\ existed = FALSE /\ cur_src = <<>> /\ new_src = <<>>
  /\ ret = NoRet /\ err = "none" /\ outs = <<>>
  /\ snap = [files |-> files, dirs |-> dirs, backups |-> backups]
  /\ doc = <<>> /\ IdlePreview /\ IdleCalls

SpecRevert == InitRevert /\ [][NextRevert]_vars

\* C26: /revert goes through backup-then-write: when it is about to write
\* to an existing target, a backup made in this request holds the target's
\* current content; and after a failed backup (status 500) no file has
\* been written.
RevertBacksUpBeforeWrite ==
  /\ (revert.pc = "write" /\ files[revert.file].exists)
       => \E b \in backups :
            b.file = revert.file /\ b.ts = now /\ b.text = files[revert.file].text
  /\ revert.status = 500 => files = snap.files

\* ------------------------------------------------------------------------
\*  Preview flows: cmd_preview of the CLI and /apply of the server.  Both
\*  make a scratch directory, copy the target files into it and run
\*  apply_patches(patches, tmpdir, dry=False) there: during a preview,
\*  files, dirs and backups are the content of the scratch directory and
\*  real is the content of the real root.
\* ------------------------------------------------------------------------

NoFiles == [f \in Paths |-> Absent]

\* /apply has a finally clause that removes the scratch directory
\* (server.py lines 513-520); cmd_preview calls shutil.rmtree only as its
\* last statement (vibe_cli.py line 1079)
CleansUpOnRaise(kind) == kind = "server"

\* an exception leaves the flow at this point
PreviewRaises(e) ==
  /\ err' = e
  /\ flow' = [flow EXCEPT !.pc = IF CleansUpOnRaise(flow.kind) THEN "end" ELSE "raised"]
  /\ IF scratch /\ CleansUpOnRaise(flow.kind)
     THEN scratch' = FALSE /\ files' = NoFiles /\ dirs' = {} /\ backups' = {}
     ELSE UNCHANGED <<scratch, files, dirs, backups>>

\* tempfile.mkdtemp: first thing in /apply, after load_patches in cmd_preview
PreviewMkdtemp ==
  /\ flow.pc = "mkdtemp"
  /\ scratch' = TRUE
  /\ flow' = [flow EXCEPT !.pc = IF flow.kind = "server" THEN "load" ELSE "copy"]
  /\ UNCHANGED <<files, dirs, backups, now, batch, dry, idx, pc, existed, cur_src,
                 new_src, ret, err, snap, outs, doc, real, serverVars, callVars>>

\* load_patches; /apply raises ValueError when it returns no patches
PreviewLoad ==
  /\ flow.pc = "load"
  /\ IF load_patches(doc).err # "none"
     THEN PreviewRaises(load_patches(doc).err) /\ UNCHANGED batch
     ELSE IF flow.kind = "server" /\ load_patches(doc).patches = <<>>
     THEN PreviewRaises("ValueError") /\ UNCHANGED batch
     ELSE /\ batch' = load_patches(doc).patches
          /\ flow' = [flow EXCEPT !.pc = IF flow.kind = "server" THEN "copy" ELSE "mkdtemp"]
          /\ UNCHANGED <<err, scratch, files, dirs, backups>>
  /\ UNCHANGED <<now, dry, idx, pc, existed, cur_src, new_src, ret, snap, outs, doc,
                 real, serverVars, callVars>>

\* the copy loop stops at a record without a file key (KeyError in
\* cmd_preview, ValueError in /apply); cmd_preview also stops at a target
\* that does not exist under the real root (src.read_text raises), /apply
\* skips it (src.is_file())
CopyStopsAt(kind, j) ==
  \/ batch[j].meta.file = "none"
  \/ kind = "cli" /\ ~real[batch[j].meta.file].exists

FirstUncopied(kind) ==
  IF \E j \in 1..Len(batch) : CopyStopsAt(kind, j)
  THEN Min({j \in 1..Len(batch) : CopyStopsAt(kind, j)})
  ELSE Len(batch) + 1

\* the scratch directory after the copies of records 1..n-1
CopiedBefore(n) ==
  [f \in Paths |-> IF \E j \in 1..(n - 1) : batch[j].meta.file = f THEN real[f] ELSE Absent]

PreviewCopy ==
  /\ flow.pc = "copy"
  /\ IF FirstUncopied(flow.kind) <= Len(batch)
     THEN IF CleansUpOnRaise(flow.kind)
          THEN PreviewRaises("ValueError") /\ UNCHANGED pc
          ELSE /\ files' = CopiedBefore(FirstUncopied(flow.kind))
               /\ err' = IF batch[FirstUncopied(flow.kind)].meta.file = "none"
                         THEN "KeyError" ELSE "FileNotFoundError"
               /\ flow' = [flow EXCEPT !.pc = "raised"]
               /\ UNCHANGED <<scratch, dirs, backups, pc>>
     ELSE /\ files' = CopiedBefore(Len(batch) + 1)
          /\ flow' = [flow EXCEPT !.pc = "apply"]
          /\ pc' = IF batch = <<>> THEN "done" ELSE "validate"
          /\ UNCHANGED <<scratch, dirs, backups, err>>
  /\ UNCHANGED <<now, batch, dry, idx, existed, cur_src, new_src, ret, snap, outs,
                 doc, real, serverVars, callVars>>

\* apply_patches has returned or raised: the diffs / the results are made
\* and the scratch directory is removed, unless the exception passes
\* through cmd_preview
PreviewFinish ==
  /\ flow.pc = "apply"
  /\ pc \in {"done", "failed"}
  /\ IF pc = "failed" THEN PreviewRaises(err)
     ELSE /\ flow' = [flow EXCEPT !.pc = "end"]
          /\ scratch' = FALSE /\ files' = NoFiles /\ dirs' = {} /\ backups' = {}
          /\ UNCHANGED err
  /\ UNCHANGED <<now, batch, dry, idx, pc, existed, cur_src, new_src, ret, snap,
                 outs, doc, real, serverVars, callVars>>

NextPreview ==
  \/ PreviewMkdtemp
  \/ PreviewLoad
  \/ PreviewCopy
  \/ PreviewFinish
  \/ Next

GoodBlock == <<"hdr16", "pt_block", "file", "marker", "icode">>

GoodFunc == <<"pt_func", "file", "marker", "icode">>

PreviewDocs ==
  {<<>>, GoodBlock, GoodBlock \o GoodFunc, GoodBlock \o <<"stray">>,
   <<"pt_block", "file", "marker", "icode">>,
   <<"hdr16", "pt_block", "marker", "icode">>,
   GoodBlock \o <<"pt_func", "marker", "icode">>,
   <<"hdr16", "pt_func", "stray">>}

MaxPreviewLen == 2

InitPreview ==
  /\ doc \in PreviewDocs
  /\ \E kind \in {"cli", "server"} :
       flow = [kind |-> kind, pc |-> IF kind = "server" THEN "mkdtemp" ELSE "load"]
  /\ \E a \in {Absent} \cup {File(t) : t \in TextsUpTo({"stmt", "blank"}, MaxPreviewLen)} :
       real = [f \in Paths |-> IF f = "a.py" THEN a ELSE Absent]
  /\ scratch = FALSE
  /\ files = NoFiles /\ dirs = {} /\ backups = {}
  /\ now = 0
  /\ batch = <<>> /\ dry = FALSE /\ idx = 1 /\ pc = "idle"
  /\ existed = FALSE /\ cur_src = <<>> /\ new_src = <<>>
  /\ ret = NoRet /\ err = "none" /\ outs = <<>>
  /\ snap = [files |-> files, dirs |-> dirs, backups |-> backups]
  /\ IdleServer /\ IdleCalls

SpecPreview == InitPreview /\ [][NextPreview]_vars

\* C27: a preview applies patches only inside its scratch directory: no
\* step creates or changes a file under the real root, and when the flow
\* has ended, by returning or by raising, the scratch directory is gone.
PreviewLeavesNothing ==
  /\ [][real' = real]_vars
  /\ [](flow.pc \in {"end", "raised"} => ~scratch)

\* ------------------------------------------------------------------------
\*  Two calls of apply_patches at once, on one filesystem and one clock.
\*  One call runs at a time; other holds the locals of the call that waits,
\*  and Switch hands the processor over between any two steps.
\* ------------------------------------------------------------------------

Locals ==
  [batch |-> batch, dry |-> dry, idx |-> idx, pc |-> pc, existed |-> existed,
   cur_src |-> cur_src, new_src |-> new_src, ret |-> ret, err |-> err,
   snap |-> snap, outs |-> outs]

Switch ==
  /\ other.pc # "idle"
  /\ other' = Locals
  /\ batch' = other.batch /\ dry' = other.dry /\ idx' = other.idx /\ pc' = other.pc
  /\ existed' = other.existed /\ cur_src' = other.cur_src /\ new_src' = other.new_src
  /\ ret' = other.ret /\ err' = other.err /\ snap' = other.snap /\ outs' = other.outs
  /\ me' = 3 - me
  /\ UNCHANGED <<files, dirs, backups, now, doc, serverVars, previewVars>>

NextCalls ==
  \/ Switch
  \/ Next

EndBlock(f) ==
  Rec(Meta("add_block", f, "none", "none", "none", "none", "none", "none"), <<"stmt">>)

CallRecords(f) == {AddFoo(f), RemoveFoo(f), EndBlock(f)}

\* what each target holds before the calls, when it exists
PreOf(f) == IF f = "a.py" THEN <<"def_foo", "body", "blank">> ELSE <<"stmt", "blank", "def_foo", "body">>

\* call 1 is a live apply of one record on a.py, call 2 of one record on
\* sub/b.py
InitCalls ==
  /\ \E a \in {Absent, File(PreOf("a.py"))}, b \in {Absent, File(PreOf("sub/b.py"))} :
       /\ files = [f \in Paths |-> IF f = "a.py" THEN a ELSE b]
       /\ dirs = IF b.exists THEN {"sub"} ELSE {}
  /\ backups = {}
  /\ now = 0
  /\ batch \in {<<r>> : r \in CallRecords("a.py")}
  /\ dry = FALSE /\ idx = 1 /\ pc = "validate"
  /\ existed = FALSE /\ cur_src = <<>> /\ new_src = <<>>
  /\ ret = NoRet /\ err = "none" /\ outs = <<>>
  /\ snap = [files |-> files, dirs |-> dirs, backups |-> backups]
  /\ \E r \in CallRecords("sub/b.py") :
       other = [Locals EXCEPT !.batch = <<r>>]
  /\ me = 1
  /\ doc = <<>> /\ IdleServer /\ IdlePreview

SpecCalls == InitCalls /\ [][NextCalls]_vars

\* what the apply of call c, run alone, writes to its target
AloneResult(c) ==
  lint_code(Edit(c.batch[1].meta, c.batch[1].code,
                 IF c.existed THEN PreOf(c.batch[1].meta.file) ELSE <<>>).text)

\* call c is past its backup step / has completed
BackedUp(c) == c.existed /\ c.pc \in {"read", "edit", "write", "return", "done"}

Completed(c) == c.pc = "done" /\ c.err = "none"

CallIndependent(c) ==
  /\ BackedUp(c)
       => \E b \in backups :
            b.file = c.batch[1].meta.file /\ b.text = PreOf(c.batch[1].meta.file)
  /\ Completed(c) => files[c.batch[1].meta.file] = File(AloneResult(c))

\* C28: two live applies on different targets do not conflict, however
\* their steps interleave: each target ends with what its own apply would
\* have written alone, and each file's backup holds that file's own
\* content from before the apply.
ConcurrentCallsIndependent == CallIndependent(Locals) /\ CallIndependent(other)

\* C28 witness: call 2 has completed on sub/b.py while call 1 had backed
\* up and edited a.py and not yet written it; both targets existed.
CallsInterleaved ==
  /\ me = 2 /\ Completed(Locals) /\ existed
  /\ other.pc = "write" /\ other.existed
  /\ files["sub/b.py"].text # PreOf("sub/b.py")
  /\ Cardinality(backups) = 2

\* C29: every backup makes a new backup file and overwrites none: no step
\* removes or changes a backup that exists (so the content from before the
\* first apply stays recoverable), and every backup step leaves one backup
\* more than there was.
BackupsOnlyGrow ==
  [][/\ backups \subseteq backups'
     /\ (pc = "backup" /\ pc' = "read")
          => Cardinality(backups') = Cardinality(backups) + 1]_vars

\* C30: a live apply_patch that raises while computing the edit leaves the
\* target as it was when the call began: an existing target keeps its
\* content, a target that did not exist still does not exist.
EditRaiseLeavesTarget ==
  (pc = "failed" /\ InRecord /\ ~dry /\ validate_spec(cur_meta) = "ok"
     /\ (snap.files[cur_target].exists \/ is_add_or_replace(cur_meta.patch_type)))
    => files[cur_target] = snap.files[cur_target]

====
